---- MODULE Spec2Model ----
(***************************************************************************)
(* The ordered position index of task-nerd: the tasks table of             *)
(* src/src/task_nerd/database.py with its per-category order_value keys,   *)
(* the allocator (_get_next_order_value, _get_order_value_before) and the  *)
(* rebalancer (_rebalance_order_values).                                   *)
(***************************************************************************)
EXTENDS Integers, Sequences, FiniteSets, TLC

\* ---------------------------------------------------------------- bounds
MaxCreate == 2       \* rows one session inserts
MaxChain == 10       \* insertions at one place made by an earlier session

\* ------------------------------------------------------------- constants
NULL == "NULL"                       \* category IS NULL
Categories == {NULL, "work"}
None == 0                            \* after_task_id / before_task_id = None

VARIABLES
    tasks,      \* the tasks table: id -> [category, order_value]
    nextId,     \* the next id AUTOINCREMENT hands out
    created,    \* rows inserted by this session
    pre,        \* the tasks table as the last operation found it
    last,       \* the last operation: its name, arguments and what it did
    conn,       \* the sqlite3 connection of the call in flight, if any
    run,        \* the tasks the creations made one after another gave
    listed,     \* the rows the last get_all_tasks returned
    attrs,      \* the tasks table's other columns: id -> [title, status, ...]
    schema,     \* the schema_version table: the versions recorded
    ui,         \* the widgets' and the app's attributes, and the messages posted
    cli,        \* the command line last run and how it ended
    call        \* the Database method in flight and the connections open

vars == <<tasks, nextId, created, pre, last, conn, run, listed,
          attrs, schema, ui, cli, call>>

\* what the operations on the position index leave alone
otherState == <<schema, ui, cli, call>>

\* ------------------------------------------------------------ SQL helpers
MaxOf(S) == CHOOSE x \in S : \A y \in S : y <= x
MinOf(S) == CHOOSE x \in S : \A y \in S : x <= y

\* WHERE category IS NULL / WHERE category = ?
CategoryFilter(ts, category) == {i \in DOMAIN ts : ts[i].category = category}

\* SELECT MAX(order_value) FROM tasks, None read as 0
MaxOrderAll(ts) ==
    LET keys == {ts[i].order_value : i \in DOMAIN ts}
    IN  IF keys = {} THEN 0 ELSE MaxOf(keys)

\* Faulty variant: the category filter left out of the MAX query.
MaxOrderWholeTable(ts, category) == MaxOrderAll(ts)

\* SELECT MAX(order_value) FROM tasks WHERE <filter>, None read as 0
MaxOrder(ts, category) ==
    LET keys == {ts[i].order_value : i \in CategoryFilter(ts, category)}
    IN  IF keys = {} THEN 0 ELSE MaxOf(keys)

\* ... AND order_value > ? ORDER BY order_value ASC LIMIT 1 (the empty set is
\* "no row")
NextRow(ts, category, order) ==
    LET keys == {ts[i].order_value : i \in CategoryFilter(ts, category)}
        above == {k \in keys : k > order}
    IN  IF above = {} THEN {} ELSE {MinOf(above)}

\* ... AND order_value < ? ORDER BY order_value DESC LIMIT 1
PrevRow(ts, category, order) ==
    LET keys == {ts[i].order_value : i \in CategoryFilter(ts, category)}
        below == {k \in keys : k < order}
    IN  IF below = {} THEN {} ELSE {MaxOf(below)}

\* The orders in which the rows ids can come out of ORDER BY order_value ASC:
\* a row with the least key first, then the others in such an order.
RECURSIVE SortedRows(_, _)
SortedRows(ts, ids) ==
    IF ids = {} THEN {<<>>}
    ELSE LET least == MinOf({ts[i].order_value : i \in ids})
             firsts == {i \in ids : ts[i].order_value = least}
         IN  UNION {{<<i>> \o rows : rows \in SortedRows(ts, ids \ {i})} : i \in firsts}

\* Faulty variant: the WHERE clause left out of the rebalancer's SELECT.
RowOrdersAllCategories(ts, category) == SortedRows(ts, DOMAIN ts)

\* The row orders SELECT id FROM tasks WHERE <category> ORDER BY order_value
\* ASC may return: rows with equal keys come in an order SQL leaves open.
RowOrders(ts, category) == SortedRows(ts, CategoryFilter(ts, category))

\* ------------------------------------------------------------- rebalancer
\* Faulty variant: idx * 1000, the first row stamped 0.
RebalanceFromZero(ts, category, rows) ==
    [i \in DOMAIN ts |->
        IF \E k \in DOMAIN rows : rows[k] = i
        THEN LET idx == (CHOOSE k \in DOMAIN rows : rows[k] = i) - 1
             IN  [ts[i] EXCEPT !.order_value = idx * 1000]
        ELSE ts[i]]

\* Faulty variant: the rows stamped from the last to the first.
RebalanceDescending(ts, category, rows) ==
    [i \in DOMAIN ts |->
        IF \E k \in DOMAIN rows : rows[k] = i
        THEN LET idx == (CHOOSE k \in DOMAIN rows : rows[k] = i) - 1
             IN  [ts[i] EXCEPT !.order_value = (Len(rows) - idx) * 1000]
        ELSE ts[i]]

\* _rebalance_order_values: the row at index idx (0-based) of the SELECT gets
\* (idx + 1) * 1000.
RebalanceOrderValues(ts, category, rows) ==
    [i \in DOMAIN ts |->
        IF \E k \in DOMAIN rows : rows[k] = i
        THEN LET idx == (CHOOSE k \in DOMAIN rows : rows[k] = i) - 1
             IN  [ts[i] EXCEPT !.order_value = (idx + 1) * 1000]
        ELSE ts[i]]

\* -------------------------------------------------------------- allocator
\* The allocator's result: the key, the table as it leaves it, and how
\* often it called the rebalancer.
Alloc(order, ts, reb) == [order_value |-> order, tasks |-> ts, rebalances |-> reb]

\* Faulty variant: max + 1 instead of max + 1000.
AppendAtEndPlusOne(ts, category) == Alloc(MaxOrder(ts, category) + 1, ts, 0)

\* "append at end of category: use max + 1000"
AppendAtEnd(ts, category) == Alloc(MaxOrder(ts, category) + 1000, ts, 0)

\* Faulty variant: the division by 2 left out.
MidpointSum(low, high) == low + high

\* Faulty variant: the midpoint rounded up.
MidpointCeil(low, high) == (low + high + 1) \div 2

\* "use midpoint"
Midpoint(low, high) == (low + high) \div 2

\* Faulty variant: a gap of 1 taken for room.
HasRoomAtOne(gap) == gap >= 1

\* Faulty variant: a gap of 2 taken for exhausted.
HasRoomAbove2(gap) == gap > 2

\* "if gap > 1", else the gap is exhausted
HasRoom(gap) == gap > 1

\* Faulty variant: the comparison of after_category with category left out.
GetNextOrderValueAnyCategory(ts, after_task_id, category, rows) ==
    IF after_task_id = None
    THEN AppendAtEnd(ts, category)
    ELSE IF after_task_id \notin DOMAIN ts
    THEN AppendAtEnd(ts, category)
    ELSE LET after_order == ts[after_task_id].order_value
             next_row == NextRow(ts, category, after_order)
         IN  IF next_row = {}
             THEN Alloc(after_order + 1000, ts, 0)
             ELSE LET next_order == MinOf(next_row)
                      gap == next_order - after_order
                  IN  IF HasRoom(gap)
                      THEN Alloc(Midpoint(after_order, next_order), ts, 0)
                      ELSE LET ts2 == RebalanceOrderValues(ts, category, rows)
                               after2 == ts2[after_task_id].order_value
                               next2 == NextRow(ts2, category, after2)
                           IN  IF next2 = {}
                               THEN Alloc(after2 + 1000, ts2, 1)
                               ELSE Alloc(Midpoint(after2, MinOf(next2)), ts2, 1)

\* _get_next_order_value
GetNextOrderValue(ts, after_task_id, category, rows) ==
    IF after_task_id = None
    THEN AppendAtEnd(ts, category)
    ELSE IF after_task_id \notin DOMAIN ts
    THEN AppendAtEnd(ts, category)
    ELSE LET after_order == ts[after_task_id].order_value
             after_category == ts[after_task_id].category
         IN  IF after_category # category
             THEN AppendAtEnd(ts, category)
             ELSE LET next_row == NextRow(ts, category, after_order)
                  IN  IF next_row = {}
                      THEN Alloc(after_order + 1000, ts, 0)
                      ELSE LET next_order == MinOf(next_row)
                               gap == next_order - after_order
                           IN  IF HasRoom(gap)
                               THEN Alloc(Midpoint(after_order, next_order), ts, 0)
                               ELSE LET ts2 == RebalanceOrderValues(ts, category, rows)
                                        after2 == ts2[after_task_id].order_value
                                        next2 == NextRow(ts2, category, after2)
                                    IN  IF next2 = {}
                                        THEN Alloc(after2 + 1000, ts2, 1)
                                        ELSE Alloc(Midpoint(after2, MinOf(next2)), ts2, 1)

\* Faulty variant: "new_order < 0" for "new_order <= 0" in the prepend case.
GetOrderValueBeforeZero(ts, before_task_id, category, rows) ==
    IF before_task_id \notin DOMAIN ts
    THEN AppendAtEnd(ts, category)
    ELSE LET before_order == ts[before_task_id].order_value
             prev_row == PrevRow(ts, category, before_order)
         IN  IF prev_row = {}
             THEN LET new_order == before_order - 1000
                  IN  IF new_order < 0
                      THEN Alloc(IF before_order > 1 THEN before_order \div 2 ELSE 1,
                                 ts, 0)
                      ELSE Alloc(new_order, ts, 0)
             ELSE LET prev_order == MaxOf(prev_row)
                      gap == before_order - prev_order
                  IN  IF HasRoom(gap)
                      THEN Alloc(Midpoint(prev_order, before_order), ts, 0)
                      ELSE LET ts2 == RebalanceOrderValues(ts, category, rows)
                               before2 == ts2[before_task_id].order_value
                               prev2 == PrevRow(ts2, category, before2)
                           IN  IF prev2 = {}
                               THEN Alloc(IF before2 > 1000 THEN before2 - 1000
                                          ELSE before2 \div 2, ts2, 1)
                               ELSE Alloc(Midpoint(MaxOf(prev2), before2), ts2, 1)

\* _get_order_value_before
GetOrderValueBefore(ts, before_task_id, category, rows) ==
    IF before_task_id \notin DOMAIN ts
    THEN AppendAtEnd(ts, category)
    ELSE LET before_order == ts[before_task_id].order_value
             prev_row == PrevRow(ts, category, before_order)
         IN  IF prev_row = {}
             THEN LET new_order == before_order - 1000
                  IN  IF new_order <= 0
                      THEN Alloc(IF before_order > 1 THEN before_order \div 2 ELSE 1,
                                 ts, 0)
                      ELSE Alloc(new_order, ts, 0)
             ELSE LET prev_order == MaxOf(prev_row)
                      gap == before_order - prev_order
                  IN  IF HasRoom(gap)
                      THEN Alloc(Midpoint(prev_order, before_order), ts, 0)
                      ELSE LET ts2 == RebalanceOrderValues(ts, category, rows)
                               before2 == ts2[before_task_id].order_value
                               prev2 == PrevRow(ts2, category, before2)
                           IN  IF prev2 = {}
                               THEN Alloc(IF before2 > 1000 THEN before2 - 1000
                                          ELSE before2 \div 2, ts2, 1)
                               ELSE Alloc(Midpoint(MaxOf(prev2), before2), ts2, 1)

\* INSERT INTO tasks (title, category, order_value) VALUES (?, ?, ?)
Insert(ts, id, category, order) ==
    [i \in DOMAIN ts \cup {id} |->
        IF i = id THEN [category |-> category, order_value |-> order] ELSE ts[i]]

\* Faulty variant: the category of the deleted row renumbered after the DELETE.
DeleteRenumber(ts, task_id) ==
    LET left == [i \in DOMAIN ts \ {task_id} |-> ts[i]]
    IN  IF task_id \in DOMAIN ts
        THEN RebalanceOrderValues(left, ts[task_id].category,
                 CHOOSE rows \in RowOrders(left, ts[task_id].category) : TRUE)
        ELSE left

\* DELETE FROM tasks WHERE id = ?
Delete(ts, task_id) == [i \in DOMAIN ts \ {task_id} |-> ts[i]]

\* create_task: the key is MAX(order_value) over the whole table + 1000
CreateTaskRow(ts, id, category) ==
    Insert(ts, id, category, MaxOrderAll(ts) + 1000)

\* Faulty variant: after_task_id takes precedence over before_task_id.
CreateTaskAtPositionRowAfterFirst(ts, id, category, after_task_id, before_task_id, rows) ==
    LET a == IF after_task_id # None
             THEN GetNextOrderValue(ts, after_task_id, category, rows)
             ELSE IF before_task_id # None
             THEN GetOrderValueBefore(ts, before_task_id, category, rows)
             ELSE GetNextOrderValue(ts, after_task_id, category, rows)
    IN  [tasks |-> Insert(a.tasks, id, category, a.order_value),
         rebalances |-> a.rebalances]

\* create_task_at_position: before_task_id takes precedence, then the INSERT
CreateTaskAtPositionRow(ts, id, category, after_task_id, before_task_id, rows) ==
    LET a == IF before_task_id # None
             THEN GetOrderValueBefore(ts, before_task_id, category, rows)
             ELSE GetNextOrderValue(ts, after_task_id, category, rows)
    IN  [tasks |-> Insert(a.tasks, id, category, a.order_value),
         rebalances |-> a.rebalances]

\* ------------------------------------------------- tables of earlier sessions
\* Database(db_path) opens the tasks.db an earlier session left behind.  A db
\* is the table with the AUTOINCREMENT counter; each table below is written by
\* the operations above, starting from the empty table.
EmptyDb == [tasks |-> <<>>, nextId |-> 1]

DbCreateAt(db, category, after_task_id, before_task_id) ==
    LET rows == CHOOSE r \in RowOrders(db.tasks, category) : TRUE
        r == CreateTaskAtPositionRow(db.tasks, db.nextId, category,
                                     after_task_id, before_task_id, rows)
    IN  [tasks |-> r.tasks, nextId |-> db.nextId + 1]

DbDelete(db, task_id) == [db EXCEPT !.tasks = Delete(db.tasks, task_id)]

\* One task, then k times: a task inserted before the only task and the
\* older one deleted.
RECURSIVE Prepended(_)
Prepended(k) ==
    IF k = 0 THEN DbCreateAt(EmptyDb, NULL, None, None)
    ELSE LET db == Prepended(k - 1)
             first == db.nextId - 1
         IN  IF first \in DOMAIN db.tasks
             THEN DbDelete(DbCreateAt(db, NULL, None, first), first)
             ELSE db

\* Tasks 1 and 2, then k times: a task inserted before task 2 and the task
\* that preceded task 2 until then deleted.
RECURSIVE InsertedBefore(_)
InsertedBefore(k) ==
    IF k = 0 THEN DbCreateAt(DbCreateAt(EmptyDb, NULL, None, None), NULL, 1, None)
    ELSE LET db == InsertedBefore(k - 1)
             prev == CHOOSE i \in DOMAIN db.tasks : i # 2
         IN  IF prev \in DOMAIN db.tasks
             THEN DbDelete(DbCreateAt(db, NULL, None, 2), prev)
             ELSE db

\* Tasks 1 and 2, then k times: a task inserted after task 1 and the task
\* that followed task 1 until then deleted.
RECURSIVE InsertedAfter(_)
InsertedAfter(k) ==
    IF k = 0 THEN DbCreateAt(DbCreateAt(EmptyDb, NULL, None, None), NULL, 1, None)
    ELSE LET db == InsertedAfter(k - 1)
             next == CHOOSE i \in DOMAIN db.tasks : i # 1
         IN  IF next \in DOMAIN db.tasks
             THEN DbDelete(DbCreateAt(db, NULL, 1, None), next)
             ELSE db

\* the table an earlier session of the given kind left
EarlierSession(script, k) ==
    CASE script = "empty" -> EmptyDb
      [] script = "prepended" -> Prepended(k)
      [] script = "inserted_before" -> InsertedBefore(k)
      [] script = "inserted_after" -> InsertedAfter(k)

\* ------------------------------------------------------------------ state
Op(name, category, after_task_id, before_task_id, id, reb) ==
    [op |-> name, category |-> category, after |-> after_task_id,
     before |-> before_task_id, id |-> id, rebalances |-> reb]

\* no connection: every method closes its own before it returns
Closed ==
    [state |-> "closed", view |-> <<>>, rows |-> <<>>, done |-> 0,
     inserted |-> FALSE, order_value |-> 0,
     call |-> Op("open", NULL, None, None, None, 0)]

\* no creation made yet
NoRun == [ids |-> <<>>, reps |-> 0, prev |-> 0]

\* ------------------------------------------------------ the other columns
MaxTime == 2         \* distinct timestamps a store holds

NoTime == 0                          \* a timestamp column that is NULL
Now == MaxTime                       \* datetime('now'): no stored time is later
CURRENT_SCHEMA_VERSION == 4

\* the other columns of the rows of ts after an INSERT (of a task titled "t",
\* the columns INSERT INTO tasks (title, category, order_value) leaves at
\* their defaults) or a DELETE made ts of the table
OtherColumns(at, ts) ==
    [i \in DOMAIN ts |->
        IF i \in DOMAIN at THEN at[i]
        ELSE [title |-> "t", status |-> "pending", completed_at |-> NoTime,
              created_at |-> Now, updated_at |-> Now]]

\* the schema_version table with the versions recorded, no migrate_schema
\* run so far
Recorded(versions) ==
    [versions |-> versions, applied |-> <<>>, from |-> 0,
     found |-> [tasks |-> <<>>, attrs |-> <<>>, versions |-> {}]]

\* no input row: NewTaskInputRow carries default_category and after_task_id,
\* EditTaskInputRow the task it edits
NoRow == [kind |-> "none", after |-> 0, category |-> NULL]
\* parse_task_title's None for the category
NoCategory == <<"None">>

\* the app not started
NoMessage ==
    [type |-> "none", id |-> 0, text |-> "", after |-> 0, category |-> NULL,
     row |-> NoRow]
Before ==
    [delete_pending |-> FALSE, clipboard |-> 0, search_mode |-> FALSE,
     search_term |-> "", editing |-> FALSE, selected |-> 0, posted |-> 0,
     focus |-> "none", opened |-> NoRow, clipboard_ready |-> FALSE,
     clipboard_mode |-> "none"]
NoUi ==
    [mounted |-> FALSE, task_ids |-> <<>>, selected |-> 0,
     delete_pending |-> FALSE, clipboard |-> 0, clipboard_title |-> "",
     clipboard_mode |-> "none", clipboard_ready |-> FALSE, hide_completed |-> FALSE,
     search_mode |-> FALSE, search_term |-> "", search_input |-> "",
     editing |-> FALSE, row |-> NoRow, container |-> 0, opened |-> NoRow,
     armed |-> 0, submitted |-> 0, typed |-> <<>>,
     parsed |-> [title |-> <<>>, category |-> NoCategory],
     status_bar |-> [hidden |-> TRUE, text |-> <<>>],
     focus |-> "none", inbox |-> <<>>,
     key |-> "none", handled |-> NoMessage, was |-> Before]

\* no command line run
NoCli ==
    [command |-> "none", present |-> FALSE, id |-> 0, fields |-> {},
     complete |-> FALSE, incomplete |-> FALSE, outcome |-> "none", code |-> 0]

\* no Database method in flight
Idle ==
    [op |-> "idle", pc |-> "idle", open |-> 0, calls |-> 0, result |-> "none",
     raised |-> 0]

\* the position index of the store opened, the session's first operation
\* still to come
InitIndex ==
    /\ \E script \in {"empty", "prepended", "inserted_before", "inserted_after"}, k \in 0..MaxChain :
         LET db == EarlierSession(script, k)
         IN  tasks = db.tasks /\ nextId = db.nextId
    /\ created = 0
    /\ pre = tasks
    /\ last = Op("open", NULL, None, None, None, 0)
    /\ conn = Closed
    /\ run = NoRun
    /\ listed = <<>>

Init ==
    /\ InitIndex
    /\ attrs = OtherColumns(<<>>, tasks)
    /\ schema = Recorded({CURRENT_SCHEMA_VERSION})
    /\ ui = NoUi
    /\ cli = NoCli
    /\ call = Idle

\* ids a caller can pass: a stored task, or one that names no row
RefIds == DOMAIN tasks \cup {nextId}

\* create_task(title, category)
CreateTask(category) ==
    /\ created < MaxCreate
    /\ tasks' = CreateTaskRow(tasks, nextId, category)
    /\ nextId' = nextId + 1
    /\ created' = created + 1
    /\ pre' = tasks
    /\ last' = Op("create_task", category, None, None, nextId, 0)
    /\ UNCHANGED <<conn, run, listed>>
    /\ attrs' = OtherColumns(attrs, tasks')
    /\ UNCHANGED otherState

\* create_task_at_position(title, category, after_task_id, before_task_id)
CreateTaskAtPosition(category, after_task_id, before_task_id) ==
    /\ created < MaxCreate
    /\ \E rows \in RowOrders(tasks, category) :
         LET r == CreateTaskAtPositionRow(tasks, nextId, category,
                                          after_task_id, before_task_id, rows)
         IN  /\ tasks' = r.tasks
             /\ last' = Op("create_task_at_position", category, after_task_id,
                           before_task_id, nextId, r.rebalances)
    /\ nextId' = nextId + 1
    /\ created' = created + 1
    /\ pre' = tasks
    /\ UNCHANGED <<conn, run, listed>>
    /\ attrs' = OtherColumns(attrs, tasks')
    /\ UNCHANGED otherState

\* delete_task(task_id)
DeleteTask(task_id) ==
    /\ tasks' = Delete(tasks, task_id)
    /\ pre' = tasks
    /\ last' = Op("delete_task", NULL, None, None, task_id, 0)
    /\ UNCHANGED <<nextId, created, conn, run, listed>>
    /\ attrs' = OtherColumns(attrs, tasks')
    /\ UNCHANGED otherState

Next ==
    \/ \E c \in Categories : CreateTask(c)
    \/ \E c \in Categories, a \in RefIds \cup {None}, b \in RefIds \cup {None} :
         CreateTaskAtPosition(c, a, b)
    \/ \E t \in RefIds : DeleteTask(t)

Spec == Init /\ [][Next]_vars

\* ------------------------------------- create_task_at_position, by statement
MaxTxn == 1          \* calls one session commits

\* Faulty variant: close() writes what the connection had not committed.
CloseCommits(view, stored) == view

\* conn.close() in the finally clause: what was not committed is dropped
Close(view, stored) == stored

\* with self.connection() as conn: the SELECTs of the allocator, up to its
\* first write; the rebalancer's rows are the rows its SELECT returned
TxnBegin(category, after_task_id, before_task_id) ==
    /\ conn.state = "closed"
    /\ created < MaxTxn
    /\ \E rows \in RowOrders(tasks, category) :
         LET r == CreateTaskAtPositionRow(tasks, nextId, category,
                                          after_task_id, before_task_id, rows)
         IN  conn' = [state |-> "open", view |-> tasks,
                      rows |-> IF r.rebalances > 0 THEN rows ELSE <<>>,
                      done |-> 0, inserted |-> FALSE,
                      order_value |-> r.tasks[nextId].order_value,
                      call |-> Op("create_task_at_position", category,
                                  after_task_id, before_task_id, nextId,
                                  r.rebalances)]
    /\ pre' = tasks
    /\ UNCHANGED <<tasks, nextId, created, last, run, listed, attrs>>
    /\ UNCHANGED otherState

\* one turn of the rebalancer's loop: the UPDATE of the row at index idx
TxnUpdate ==
    /\ conn.state = "open"
    /\ conn.done < Len(conn.rows)
    /\ LET idx == conn.done
       IN  conn' = [conn EXCEPT
                      !.view = [conn.view EXCEPT ![conn.rows[idx + 1]].order_value = (idx + 1) * 1000],
                      !.done = idx + 1]
    /\ UNCHANGED <<tasks, nextId, created, pre, last, run, listed, attrs>>
    /\ UNCHANGED otherState

\* the INSERT with the key the allocator returned
TxnInsert ==
    /\ conn.state = "open"
    /\ conn.done = Len(conn.rows)
    /\ ~conn.inserted
    /\ conn' = [conn EXCEPT
                  !.view = Insert(conn.view, conn.call.id, conn.call.category,
                                  conn.order_value),
                  !.inserted = TRUE]
    /\ UNCHANGED <<tasks, nextId, created, pre, last, run, listed, attrs>>
    /\ UNCHANGED otherState

\* conn.commit(): the connection's view becomes the stored table; the SELECT
\* of the new row, and the close
TxnCommit ==
    /\ conn.state = "open"
    /\ conn.inserted
    /\ tasks' = conn.view
    /\ nextId' = nextId + 1
    /\ created' = created + 1
    /\ last' = conn.call
    /\ conn' = [conn EXCEPT !.state = "closed"]
    /\ UNCHANGED <<pre, run, listed>>
    /\ attrs' = OtherColumns(attrs, tasks')
    /\ UNCHANGED otherState

\* a statement raises before the commit (a SELECT, an UPDATE, the INSERT or
\* the commit itself): the finally clause closes the connection and the
\* exception leaves create_task_at_position
TxnFail ==
    /\ conn.state = "open"
    /\ tasks' = Close(conn.view, tasks)
    /\ last' = [conn.call EXCEPT !.op = "failed"]
    /\ conn' = [conn EXCEPT !.state = "closed"]
    /\ UNCHANGED <<nextId, created, pre, run, listed>>
    /\ attrs' = OtherColumns(attrs, tasks')
    /\ UNCHANGED otherState

NextTxn ==
    \/ \E c \in Categories, a \in RefIds \cup {None}, b \in RefIds \cup {None} :
         TxnBegin(c, a, b)
    \/ TxnUpdate
    \/ TxnInsert
    \/ TxnCommit
    \/ TxnFail

SpecTxn == Init /\ [][NextTxn]_vars

\* --------------------------------------------- creations one after another
MaxRun == 4          \* creations of one run
MaxScenario == 13    \* creations of the reference scenario

\* create_task_at_position(title, category, after_task_id, before_task_id),
\* the tasks created one after another kept in newrun
CreateInRun(category, after_task_id, before_task_id, newrun) ==
    /\ \E rows \in RowOrders(tasks, category) :
         LET r == CreateTaskAtPositionRow(tasks, nextId, category,
                                          after_task_id, before_task_id, rows)
         IN  /\ tasks' = r.tasks
             /\ last' = Op("create_task_at_position", category, after_task_id,
                           before_task_id, nextId, r.rebalances)
    /\ nextId' = nextId + 1
    /\ created' = created + 1
    /\ pre' = tasks
    /\ run' = newrun
    /\ UNCHANGED <<conn, listed>>
    /\ attrs' = OtherColumns(attrs, tasks')
    /\ UNCHANGED otherState

\* the first creation of a session: any category, any references
RunStart(category, after_task_id, before_task_id) ==
    /\ created = 0
    /\ created < MaxRun
    /\ CreateInRun(category, after_task_id, before_task_id,
                   [ids |-> <<nextId>>,
                    reps |-> IF before_task_id # None THEN 1 ELSE 0,
                    prev |-> 0])

\* on_task_created with the input row reopened below the task just created:
\* the same category, after_task_id the previous new task
RunAfterLast ==
    /\ created >= 1
    /\ created < MaxRun
    /\ CreateInRun(last.category, last.id, None,
                   [ids |-> Append(run.ids, nextId),
                    reps |-> 0,
                    prev |-> last.rebalances])

\* an insertion before before_task_id into the category of the previous call;
\* once a call named a before_task_id, the same one again
RunBefore(before_task_id) ==
    /\ created >= 1
    /\ created < MaxRun
    /\ last.before # None => before_task_id = last.before
    /\ CreateInRun(last.category, None, before_task_id,
                   [ids |-> <<nextId>>,
                    reps |-> IF last.before = before_task_id
                             THEN run.reps + 1 ELSE 1,
                    prev |-> last.rebalances])

NextRun ==
    \/ \E c \in Categories, a \in RefIds \cup {None}, b \in RefIds \cup {None} :
         RunStart(c, a, b)
    \/ RunAfterLast
    \/ \E b \in DOMAIN tasks : RunBefore(b)

SpecRun == Init /\ [][NextRun]_vars

\* task A: created with no reference in a category that holds no task
ScenarioA(category) ==
    /\ created = 0
    /\ CategoryFilter(tasks, category) = {}
    /\ CreateInRun(category, None, None,
                   [ids |-> <<nextId>>, reps |-> 0, prev |-> 0])

\* task B: created after A
ScenarioB ==
    /\ created = 1
    /\ CreateInRun(last.category, run.ids[1], None,
                   [ids |-> Append(run.ids, nextId), reps |-> 0, prev |-> 0])

\* C, D, ...: each created before B
ScenarioBeforeB ==
    /\ created >= 2
    /\ created < MaxScenario
    /\ CreateInRun(last.category, None, run.ids[2],
                   [ids |-> Append(run.ids, nextId),
                    reps |-> run.reps + 1,
                    prev |-> last.rebalances])

NextScenario ==
    \/ \E c \in Categories : ScenarioA(c)
    \/ ScenarioB
    \/ ScenarioBeforeB

SpecScenario == Init /\ [][NextScenario]_vars

\* ------------------------------------------------------------ get_all_tasks
MaxList == 2         \* rows one session inserts before it lists

\* the UTF-8 encoding of a category label
Utf8(label) ==
    CASE label = "Work" -> <<87, 111, 114, 107>>
      [] label = "home" -> <<104, 111, 109, 101>>
      [] label = "wo" -> <<119, 111>>
      [] label = "work" -> <<119, 111, 114, 107>>

\* the BINARY collation of TEXT: memcmp over the common length, then the
\* shorter value first
BytesLess(s, t) ==
    \E k \in 1..Len(t) :
        /\ \A m \in 1..(k - 1) : m <= Len(s) /\ s[m] = t[m]
        /\ (k > Len(s) \/ s[k] < t[k])

\* Faulty variant: the rows without category put last.
NullRankLast(category) == IF category = NULL THEN 2 ELSE 1

\* CASE WHEN category IS NULL THEN 0 ELSE 1 END
NullRank(category) == IF category = NULL THEN 0 ELSE 1

\* row i sorts strictly before row j under
\* ORDER BY CASE ... END, category ASC, order_value ASC
RowLess(ts, i, j) ==
    LET ci == ts[i].category
        cj == ts[j].category
    IN  \/ NullRank(ci) < NullRank(cj)
        \/ /\ NullRank(ci) = NullRank(cj)
           /\ \/ ci # NULL /\ cj # NULL /\ BytesLess(Utf8(ci), Utf8(cj))
              \/ ci = cj /\ ts[i].order_value < ts[j].order_value

\* the row of task id as the SELECT returns it
Row(ts, id) ==
    [id |-> id, category |-> ts[id].category, order_value |-> ts[id].order_value]

\* the lists cursor.fetchall() may return: a row no other sorts before comes
\* first, rows that compare equal in an order SQL leaves open
RECURSIVE ListOrders(_, _)
ListOrders(ts, ids) ==
    IF ids = {} THEN {<<>>}
    ELSE LET firsts == {i \in ids : \A j \in ids : ~RowLess(ts, j, i)}
         IN  UNION {{<<Row(ts, i)>> \o rows : rows \in ListOrders(ts, ids \ {i})} :
                       i \in firsts}

\* create_task_at_position(title, category, None, before_task_id)
ListCreate(category, before_task_id) ==
    /\ created < MaxList
    /\ CreateInRun(category, None, before_task_id, run)

\* get_all_tasks()
GetAllTasks ==
    /\ listed' \in ListOrders(tasks, DOMAIN tasks)
    /\ last' = Op("get_all_tasks", NULL, None, None, None, 0)
    /\ pre' = tasks
    /\ UNCHANGED <<tasks, nextId, created, conn, run, attrs>>
    /\ UNCHANGED otherState

NextList ==
    \/ \E c \in {NULL, "Work", "home", "wo", "work"}, b \in DOMAIN tasks \cup {None} : ListCreate(c, b)
    \/ GetAllTasks

SpecList == Init /\ [][NextList]_vars

\* ------------------------------------------------- status, title, migration
MaxOld == 3          \* rows a store of an earlier version holds
MaxStored == 2       \* rows a session that updates status and title finds
MaxCalls == 2        \* calls one session makes after its start

\* a row of the tasks table, all columns
Record(ts, at, i) ==
    [category |-> ts[i].category, order_value |-> ts[i].order_value,
     title |-> at[i].title, status |-> at[i].status,
     completed_at |-> at[i].completed_at, created_at |-> at[i].created_at,
     updated_at |-> at[i].updated_at]

\* a table from its rows: the columns of the position index, and the others
Table(rows) ==
    [tasks |-> [i \in DOMAIN rows |->
                  [category |-> rows[i].category, order_value |-> rows[i].order_value]],
     attrs |-> [i \in DOMAIN rows |->
                  [title |-> rows[i].title, status |-> rows[i].status,
                   completed_at |-> rows[i].completed_at,
                   created_at |-> rows[i].created_at,
                   updated_at |-> rows[i].updated_at]]]

\* Faulty variant: completed_at left as it is when the status is not
\* completed.
UpdateStatusRowKeepsStamp(row, status) ==
    IF status = "completed"
    THEN [row EXCEPT !.status = status, !.completed_at = Now, !.updated_at = Now]
    ELSE [row EXCEPT !.status = status, !.updated_at = Now]

\* the SET clauses of update_task_status
UpdateStatusRow(row, status) ==
    IF status = "completed"
    THEN [row EXCEPT !.status = status, !.completed_at = Now, !.updated_at = Now]
    ELSE [row EXCEPT !.status = status, !.completed_at = NoTime, !.updated_at = Now]

\* Faulty variant: the title is written to the category column as well.
UpdateTitleRowRelabels(row, title) ==
    [row EXCEPT !.title = title, !.updated_at = Now, !.category = title]

\* the SET clause of update_task_title
UpdateTitleRow(row, title) == [row EXCEPT !.title = title, !.updated_at = Now]

\* UPDATE tasks SET ... WHERE id = ?, for update_task_status
UpdateTaskStatusRows(ts, at, task_id, status) ==
    Table([i \in DOMAIN ts |->
             IF i = task_id THEN UpdateStatusRow(Record(ts, at, i), status)
             ELSE Record(ts, at, i)])

\* UPDATE tasks SET ... WHERE id = ?, for update_task_title
UpdateTaskTitleRows(ts, at, task_id, title) ==
    Table([i \in DOMAIN ts |->
             IF i = task_id THEN UpdateTitleRow(Record(ts, at, i), title)
             ELSE Record(ts, at, i)])

\* SELECT MAX(version) FROM schema_version; 0 for None
GetSchemaVersion(versions) == IF versions = {} THEN 0 ELSE MaxOf(versions)

\* v1 -> v2: ALTER TABLE tasks ADD COLUMN category TEXT DEFAULT NULL
MigrateCategory(t) ==
    Table([i \in DOMAIN t.tasks |->
             [Record(t.tasks, t.attrs, i) EXCEPT !.category = NULL]])

\* the row orders SELECT id FROM tasks WHERE <category> ORDER BY created_at
\* DESC may return: a row with the latest created_at first
RECURSIVE CreatedDesc(_, _)
CreatedDesc(at, ids) ==
    IF ids = {} THEN {<<>>}
    ELSE LET latest == MaxOf({at[i].created_at : i \in ids})
             firsts == {i \in ids : at[i].created_at = latest}
         IN  UNION {{<<i>> \o rows : rows \in CreatedDesc(at, ids \ {i})} : i \in firsts}

\* Faulty variant: idx * 1000 + 1000 taken over the whole table's count:
\* every category continues where the one before it stopped.
BackfillCategoryRunningOn(ts, rows) ==
    LET base == MaxOrderAll(ts)
    IN  [i \in DOMAIN ts |->
           IF \E k \in DOMAIN rows : rows[k] = i
           THEN LET idx == (CHOOSE k \in DOMAIN rows : rows[k] = i) - 1
                IN  [ts[i] EXCEPT !.order_value = base + (idx + 1) * 1000]
           ELSE ts[i]]

\* for idx, row in enumerate(rows): UPDATE tasks SET order_value =
\* (idx + 1) * 1000 WHERE id = row["id"]
BackfillCategory(ts, rows) ==
    [i \in DOMAIN ts |->
        IF \E k \in DOMAIN rows : rows[k] = i
        THEN LET idx == (CHOOSE k \in DOMAIN rows : rows[k] = i) - 1
             IN  [ts[i] EXCEPT !.order_value = (idx + 1) * 1000]
        ELSE ts[i]]

\* for cat in categories: the tables the loop over the categories cats can
\* leave of ts
RECURSIVE BackfillAll(_, _, _)
BackfillAll(ts, at, cats) ==
    IF cats = {} THEN {ts}
    ELSE LET cat == CHOOSE c \in cats : TRUE
         IN  UNION {BackfillAll(BackfillCategory(ts, rows), at, cats \ {cat}) :
                       rows \in CreatedDesc(at, CategoryFilter(ts, cat))}

\* v2 -> v3: ALTER TABLE tasks ADD COLUMN order_value INTEGER DEFAULT 0, then
\* the keys of every category of SELECT DISTINCT category FROM tasks
MigrateOrderValue(t) ==
    LET zero == [i \in DOMAIN t.tasks |-> [t.tasks[i] EXCEPT !.order_value = 0]]
        cats == {zero[i].category : i \in DOMAIN zero}
    IN  {[tasks |-> ts, attrs |-> t.attrs] : ts \in BackfillAll(zero, t.attrs, cats)}

\* v3 -> v4: ALTER TABLE tasks ADD COLUMN completed_at TEXT DEFAULT NULL, then
\* UPDATE tasks SET completed_at = updated_at WHERE status = 'completed'
MigrateCompletedAt(t) ==
    [tasks |-> t.tasks,
     attrs |-> [i \in DOMAIN t.attrs |->
                  [t.attrs[i] EXCEPT !.completed_at =
                      IF t.attrs[i].status = "completed"
                      THEN t.attrs[i].updated_at ELSE NoTime]]]

\* Faulty variant: "current_version <= step".
StepPendingInclusive(current_version, step) == current_version <= step

\* if current_version < 2 / 3 / 4
StepPending(current_version, step) == current_version < step

\* migrate_schema on the table t with the versions recorded: the tables, the
\* versions and the steps applied it can end with
MigrateSchema(t, versions) ==
    LET v0 == GetSchemaVersion(versions)
    IN  IF v0 = 0
        THEN {[table |-> t, versions |-> versions, applied |-> <<>>]}
        ELSE LET do2 == StepPending(v0, 2)
                 t2 == IF do2 THEN MigrateCategory(t) ELSE t
                 v2 == IF do2 THEN 2 ELSE v0
                 a2 == IF do2 THEN <<2>> ELSE <<>>
                 r2 == IF do2 THEN versions \cup {2} ELSE versions
                 do3 == StepPending(v2, 3)
                 v3 == IF do3 THEN 3 ELSE v2
                 a3 == IF do3 THEN Append(a2, 3) ELSE a2
                 r3 == IF do3 THEN r2 \cup {3} ELSE r2
                 do4 == StepPending(v3, 4)
                 a4 == IF do4 THEN Append(a3, 4) ELSE a3
                 r4 == IF do4 THEN r3 \cup {4} ELSE r3
             IN  {[table |-> IF do4 THEN MigrateCompletedAt(t3) ELSE t3,
                   versions |-> r4, applied |-> a4] :
                     t3 \in IF do3 THEN MigrateOrderValue(t2) ELSE {t2}}

\* a row a store of schema version v can hold: no category before version 2,
\* no order_value before version 3 (the keys of version 3 on are those
\* create_task gave), no completed_at before version 4
OldRows(v, statuses, createdAt) ==
    {[category |-> c, order_value |-> 0, title |-> "t", status |-> st,
      completed_at |-> IF v >= 4 /\ st = "completed" THEN u ELSE NoTime,
      created_at |-> cr, updated_at |-> u] :
        c \in IF v >= 2 THEN Categories ELSE {NULL},
        st \in statuses, cr \in createdAt, u \in {Now}}

\* the store is one of schema version v with n rows, the versions from
\* first on recorded (none for v = 0)
OldStore(v, first, n, statuses, createdAt) ==
    /\ \E rows \in [1..n -> OldRows(v, statuses, createdAt)] :
         /\ tasks = [id \in 1..n |->
                       [category |-> rows[id].category,
                        order_value |-> IF v >= 3 THEN id * 1000 ELSE 0]]
         /\ attrs = Table(rows).attrs
    /\ nextId = n + 1
    /\ schema = Recorded(IF v = 0 THEN {} ELSE first..v)
    /\ created = 0
    /\ pre = tasks
    /\ last = Op("open", NULL, None, None, None, 0)
    /\ conn = Closed
    /\ run = NoRun
    /\ listed = <<>>
    /\ ui = NoUi
    /\ cli = NoCli
    /\ call = Idle

InitMigrate ==
    \E v \in 0..CURRENT_SCHEMA_VERSION, first \in 1..CURRENT_SCHEMA_VERSION,
       n \in 0..MaxOld :
        /\ first \in {1, v}
        /\ OldStore(v, first, n, {"pending", "completed"}, 1..MaxTime)

\* migrate_schema()
MigrateSchemaRun ==
    /\ \E r \in MigrateSchema([tasks |-> tasks, attrs |-> attrs], schema.versions) :
         /\ tasks' = r.table.tasks
         /\ attrs' = r.table.attrs
         /\ schema' = [versions |-> r.versions, applied |-> r.applied,
                       from |-> GetSchemaVersion(schema.versions),
                       found |-> [tasks |-> tasks, attrs |-> attrs,
                                  versions |-> schema.versions]]
    /\ pre' = tasks
    /\ last' = Op("migrate_schema", NULL, None, None, None, 0)
    /\ UNCHANGED <<nextId, created, conn, run, listed, ui, cli, call>>

SpecMigrate == InitMigrate /\ [][MigrateSchemaRun]_vars

\* a version-3 store as an earlier release left it, or a version-4 store
InitStatus ==
    \E v \in {3, CURRENT_SCHEMA_VERSION}, n \in 0..MaxStored :
        OldStore(v, v, n, {"pending", "completed"}, {1})

\* the columns the statements of this release name are there
Migrated == GetSchemaVersion(schema.versions) = CURRENT_SCHEMA_VERSION

\* one more call of the session
Called == [call EXCEPT !.calls = call.calls + 1]

\* create_task(title, category)
StatusCreate(category) ==
    /\ Migrated
    /\ call.calls < MaxCalls
    /\ call' = Called
    /\ tasks' = CreateTaskRow(tasks, nextId, category)
    /\ attrs' = OtherColumns(attrs, tasks')
    /\ nextId' = nextId + 1
    /\ pre' = tasks
    /\ last' = Op("create_task", category, None, None, nextId, 0)
    /\ UNCHANGED <<created, conn, run, listed, schema, ui, cli>>

\* update_task_status(task_id, status)
UpdateTaskStatus(task_id, status) ==
    /\ Migrated
    /\ call.calls < MaxCalls
    /\ call' = Called
    /\ LET t == UpdateTaskStatusRows(tasks, attrs, task_id, status)
       IN  tasks' = t.tasks /\ attrs' = t.attrs
    /\ pre' = tasks
    /\ last' = Op("update_task_status", NULL, None, None, task_id, 0)
    /\ UNCHANGED <<nextId, created, conn, run, listed, schema, ui, cli>>

\* update_task_title(task_id, title)
UpdateTaskTitle(task_id, title) ==
    /\ Migrated
    /\ call.calls < MaxCalls
    /\ call' = Called
    /\ LET t == UpdateTaskTitleRows(tasks, attrs, task_id, title)
       IN  tasks' = t.tasks /\ attrs' = t.attrs
    /\ pre' = tasks
    /\ last' = Op("update_task_title", NULL, None, None, task_id, 0)
    /\ UNCHANGED <<nextId, created, conn, run, listed, schema, ui, cli>>

\* _initialize_database(): the session starts with migrate_schema()
NextStatus ==
    \/ last.op = "open" /\ MigrateSchemaRun
    \/ \E c \in Categories : StatusCreate(c)
    \/ \E t \in RefIds, st \in {"pending", "in_progress", "completed", "cancelled"} : UpdateTaskStatus(t, st)
    \/ \E t \in RefIds : UpdateTaskTitle(t, "u")

SpecStatus == InitStatus /\ [][NextStatus]_vars

\* ------------------------------------------------------- connection()
\* the methods of Database that open a connection
Operations ==
    {"initialize_schema", "get_schema_version", "verify_connection",
     "migrate_schema", "get_all_tasks", "create_task", "update_task_status",
     "update_task_title", "delete_task", "create_task_at_position"}

\* Faulty variant: conn.close() after the yield, outside a finally: skipped
\* when the block raises.
ConnectionExitNoFinally(open, raising) == IF raising THEN open ELSE open - 1

\* finally: conn.close()
ConnectionExit(open, raising) == open - 1

\* a method is called and sqlite3.connect() gives it a connection;
\* migrate_schema starts with its call of get_schema_version
ConnEnter(op) ==
    /\ call.pc = "idle"
    /\ call.calls < MaxCalls
    /\ call' = [op |-> op,
                pc |-> IF op = "migrate_schema" THEN "version" ELSE "body",
                open |-> call.open + 1, calls |-> call.calls + 1,
                result |-> "none", raised |-> call.raised]
    /\ UNCHANGED <<tasks, nextId, created, pre, last, conn, run, listed, attrs, schema, ui, cli>>

\* a method is called and sqlite3.connect() raises: nothing was opened;
\* verify_connection returns False
ConnRefused(op) ==
    /\ call.pc = "idle"
    /\ call.calls < MaxCalls
    /\ call' = [op |-> op, pc |-> "idle", open |-> call.open,
                calls |-> call.calls + 1,
                result |-> IF op = "verify_connection" THEN "returned" ELSE "raised",
                raised |-> call.raised + 1]
    /\ UNCHANGED <<tasks, nextId, created, pre, last, conn, run, listed, attrs, schema, ui, cli>>

\* the with block ends or returns
ConnReturn ==
    /\ call.pc = "body"
    /\ call' = [call EXCEPT !.pc = "idle", !.open = ConnectionExit(call.open, FALSE),
                            !.result = "returned"]
    /\ UNCHANGED <<tasks, nextId, created, pre, last, conn, run, listed, attrs, schema, ui, cli>>

\* get_schema_version() returns to migrate_schema: None ends it, a version
\* takes it to its own with block
VersionReturn(none) ==
    /\ call.pc = "version"
    /\ call' = [call EXCEPT !.pc = IF none THEN "idle" ELSE "between",
                            !.open = ConnectionExit(call.open, FALSE),
                            !.result = IF none THEN "returned" ELSE "none"]
    /\ UNCHANGED <<tasks, nextId, created, pre, last, conn, run, listed, attrs, schema, ui, cli>>

\* with self.connection() as conn, in migrate_schema
MigrateEnter ==
    /\ call.pc = "between"
    /\ call' = [call EXCEPT !.pc = "body", !.open = call.open + 1]
    /\ UNCHANGED <<tasks, nextId, created, pre, last, conn, run, listed, attrs, schema, ui, cli>>

\* a statement of the block raises: the exception reaches the yield
ConnRaise ==
    /\ call.pc \in {"body", "version"}
    /\ call' = [call EXCEPT !.pc = "unwinding", !.raised = call.raised + 1]
    /\ UNCHANGED <<tasks, nextId, created, pre, last, conn, run, listed, attrs, schema, ui, cli>>

\* the finally clause on the way out of a block that raised;
\* get_schema_version and verify_connection catch the error and return
ConnFinally ==
    /\ call.pc = "unwinding"
    /\ call' = [call EXCEPT !.pc = "idle", !.open = ConnectionExit(call.open, TRUE),
                            !.result = IF call.op \in {"get_schema_version",
                                                       "verify_connection"}
                                       THEN "returned" ELSE "raised"]
    /\ UNCHANGED <<tasks, nextId, created, pre, last, conn, run, listed, attrs, schema, ui, cli>>

NextConn ==
    \/ \E op \in Operations : ConnEnter(op)
    \/ \E op \in Operations : ConnRefused(op)
    \/ ConnReturn
    \/ \E none \in BOOLEAN : VersionReturn(none)
    \/ MigrateEnter
    \/ ConnRaise
    \/ ConnFinally

\* from an empty store of the current version, no call made
SpecConn ==
    /\ OldStore(CURRENT_SCHEMA_VERSION, CURRENT_SCHEMA_VERSION, 0, {"pending"}, {Now})
    /\ [][NextConn]_vars

\* --------------------------------------------------------------- run_cli
\* how a run of run_cli(argv) ends: it returns a code, argparse exits with
\* one, or an exception leaves it
Returns(code) == [outcome |-> "returns", code |-> code]
SystemExit(code) == [outcome |-> "SystemExit", code |-> code]

\* the argv of a run and its end, as the history of the run
Ran(command, present, id, fields, complete, incomplete, end) ==
    [command |-> command, present |-> present, id |-> id, fields |-> fields,
     complete |-> complete, incomplete |-> incomplete,
     outcome |-> end.outcome, code |-> end.code]

\* a store of the current version in the working directory, if there is one
InitCli ==
    \E n \in 0..MaxStored :
        OldStore(CURRENT_SCHEMA_VERSION, CURRENT_SCHEMA_VERSION, n,
                 {"pending", "completed"}, {1})

\* cmd_edit: Database has no attribute update_task
CmdEdit(present, ts, task_id, fields) ==
    IF ~present THEN Returns(1)
    ELSE IF fields = {} THEN Returns(1)
    ELSE IF task_id \notin DOMAIN ts THEN Returns(1)
    ELSE [outcome |-> "AttributeError", code |-> 0]

\* cmd_mark, its exit code
CmdMark(present, ts, task_id) ==
    IF ~present THEN Returns(1)
    ELSE IF task_id \notin DOMAIN ts THEN Returns(1)
    ELSE Returns(0)

\* task-nerd ls; cmd_ls returns 1 unless the working directory holds a
\* tasks.db (present)
RunLs(present) ==
    /\ call.calls < MaxCalls
    /\ call' = Called
    /\ cli' = Ran("ls", present, 0, {}, FALSE, FALSE, IF present THEN Returns(0) ELSE Returns(1))
    /\ pre' = tasks
    /\ last' = Op("ls", NULL, None, None, None, 0)
    /\ UNCHANGED <<tasks, attrs>>
    /\ UNCHANGED <<nextId, created, conn, run, listed, schema, ui>>

\* task-nerd edit --id task_id and the options fields
RunEdit(present, task_id, fields) ==
    /\ call.calls < MaxCalls
    /\ call' = Called
    /\ cli' = Ran("edit", present, task_id, fields, FALSE, FALSE,
                  CmdEdit(present, tasks, task_id, fields))
    /\ pre' = tasks
    /\ last' = Op("edit", NULL, None, None, task_id, 0)
    /\ UNCHANGED <<tasks, attrs>>
    /\ UNCHANGED <<nextId, created, conn, run, listed, schema, ui>>

\* task-nerd mark --id task_id [--complete] [--incomplete]
\* add_mutually_exclusive_group(required=True): parser.parse_args exits with
\* status 2 unless exactly one of --complete, --incomplete is given
RunMark(present, task_id, complete, incomplete) ==
    /\ call.calls < MaxCalls
    /\ call' = Called
    /\ cli' = Ran("mark", present, task_id, {}, complete, incomplete,
                  IF complete # incomplete
                  THEN CmdMark(present, tasks, task_id) ELSE SystemExit(2))
    /\ IF complete # incomplete /\ present /\ task_id \in DOMAIN tasks
       THEN LET t == UpdateTaskStatusRows(tasks, attrs, task_id,
                        IF complete THEN "completed" ELSE "pending")
            IN  tasks' = t.tasks /\ attrs' = t.attrs
       ELSE UNCHANGED <<tasks, attrs>>
    /\ pre' = tasks
    /\ last' = Op("mark", NULL, None, None, task_id, 0)
    /\ UNCHANGED <<nextId, created, conn, run, listed, schema, ui>>

NextCli ==
    \/ \E present \in BOOLEAN : RunLs(present)
    \/ \E present \in BOOLEAN, t \in RefIds, fields \in SUBSET {"name", "description", "category"} :
         RunEdit(present, t, fields)
    \/ \E present \in BOOLEAN, t \in RefIds, complete \in BOOLEAN, incomplete \in BOOLEAN :
         RunMark(present, t, complete, incomplete)

SpecCli == InitCli /\ [][NextCli]_vars

\* ------------------------------------------------------------- the screen
MaxKeys == 4         \* keys and clicks of one session

\* a Python string as the sequence of its characters: the texts typed here
\* and the labels, any other being one character
Chars(text) ==
    CASE text = "" -> <<>>
      [] text = "work" -> <<"w", "o", "r", "k">>
      [] text = "t #work" -> <<"t", " ", "#", "w", "o", "r", "k">>
      [] OTHER -> <<text>>

\* term_lower in title_lower
Substring(pattern, text) ==
    \E k \in 0..(Len(text) - Len(pattern)) :
        SubSeq(text, k + 1, k + Len(pattern)) = pattern

\* _fuzzy_match: pattern_idx after the characters of text from the k-th on
RECURSIVE FuzzyIndex(_, _, _, _)
FuzzyIndex(pattern, text, k, pattern_idx) ==
    IF k > Len(text) THEN pattern_idx
    ELSE FuzzyIndex(pattern, text, k + 1,
                    IF pattern_idx < Len(pattern) /\ text[k] = pattern[pattern_idx + 1]
                    THEN pattern_idx + 1 ELSE pattern_idx)

\* the ids _load_tasks keeps of get_all_tasks(): hide_completed, then
\* _filter_tasks_by_search
Shown(ts, at, hide_completed, search_term) ==
    {i \in DOMAIN ts :
        /\ ~(hide_completed /\ at[i].status = "completed")
        /\ \/ search_term = ""
           \/ Substring(Chars(search_term), Chars(at[i].title))
           \/ FuzzyIndex(Chars(search_term), Chars(at[i].title), 1, 0)
                 = Len(Chars(search_term))}

\* Faulty variant: the requested id is selected whether or not it is shown.
SelectAsRequested(task_ids, select_task_id) ==
    IF select_task_id # None THEN select_task_id
    ELSE IF task_ids # <<>> THEN task_ids[1] ELSE None

\* do_mount, "Set selection"
Select(task_ids, select_task_id) ==
    IF select_task_id # None /\ \E k \in DOMAIN task_ids : task_ids[k] = select_task_id
    THEN select_task_id
    ELSE IF task_ids # <<>> THEN task_ids[1] ELSE None

\* _load_tasks(select_task_id, focus_list): the screens it can leave of u
LoadTasks(u, ts, at, select_task_id, focus_list) ==
    {[u EXCEPT !.task_ids = [k \in DOMAIN rows |-> rows[k].id],
               !.selected = Select([k \in DOMAIN rows |-> rows[k].id], select_task_id),
               !.row = NoRow,
               !.focus = IF focus_list THEN "list" ELSE @] :
        rows \in ListOrders(ts, Shown(ts, at, u.hide_completed, u.search_term))}

\* _refresh_list(select_task_id): remove_children() takes an input row in
\* the list with it, then the rows again from the tasks last loaded
RefreshList(u, select_task_id) ==
    [u EXCEPT !.selected = Select(u.task_ids, select_task_id), !.row = NoRow,
              !.focus = "list"]

\* query_one(NewTaskInputRow).remove() inside try / except: the first row in
\* document order goes, #input-container before #task-list; with more than
\* one match a Textual whose query_one raises TooManyMatches removes none
RemoveNewTaskInputRow(u) ==
    LET matches == u.container + IF u.row.kind = "input" THEN 1 ELSE 0
        first == IF u.container > 0 THEN [u EXCEPT !.container = @ - 1]
                 ELSE IF u.row.kind = "input" THEN [u EXCEPT !.row = NoRow]
                 ELSE u
    IN  {first} \cup IF matches > 1 THEN {u} ELSE {}

\* hide_input(): the screens it can leave
HideInput(u) ==
    IF ~u.editing THEN {u}
    ELSE {RefreshList([v EXCEPT !.editing = FALSE], u.selected) :
            v \in RemoveNewTaskInputRow(u)}

\* hide_edit()
HideEdit(u) ==
    IF ~u.editing THEN u
    ELSE RefreshList([u EXCEPT !.editing = FALSE], u.selected)

\* _update_search_status_bar()
SearchStatusBar(search_term) ==
    IF search_term # "" THEN [hidden |-> FALSE, text |-> <<"/", search_term>>]
    ELSE [hidden |-> TRUE, text |-> <<>>]

\* _exit_search_mode()
ExitSearchMode(u) ==
    [u EXCEPT !.search_mode = FALSE, !.status_bar = SearchStatusBar(u.search_term)]

\* the messages of widgets/task_list.py
StatusBarUpdate(text) == [NoMessage EXCEPT !.type = "StatusBarUpdate", !.text = text]
TaskDeleted(task_id) == [NoMessage EXCEPT !.type = "TaskDeleted", !.id = task_id]
TaskPasted(title, category, after_task_id, delete_source_id) ==
    [type |-> "TaskPasted", id |-> delete_source_id, text |-> title,
     after |-> after_task_id, category |-> category, row |-> NoRow]
EscapePressedInList == [NoMessage EXCEPT !.type = "EscapePressedInList"]
SearchSubmitted(term) == [NoMessage EXCEPT !.type = "SearchSubmitted", !.text = term]
SearchCancelled == [NoMessage EXCEPT !.type = "SearchCancelled"]
InputCancelled == [NoMessage EXCEPT !.type = "InputCancelled"]

\* post_message
Post(u, message) == [u EXCEPT !.inbox = Append(@, message)]

\* the handler name runs on the screen u: what it found, for the record
Handling(u, name, message) ==
    [u EXCEPT !.key = name, !.handled = message,
              !.was = [delete_pending |-> u.delete_pending, clipboard |-> u.clipboard,
                       search_mode |-> u.search_mode, search_term |-> u.search_term,
                       editing |-> u.editing, selected |-> u.selected,
                       posted |-> Len(u.inbox), focus |-> u.focus,
                       opened |-> u.opened, clipboard_ready |-> u.clipboard_ready,
                       clipboard_mode |-> u.clipboard_mode]]

\* the task the selected row shows: none while its row is replaced by the
\* edit row
SelectedTask(u) ==
    IF u.row.kind = "edit" /\ u.row.after = u.selected THEN None ELSE u.selected

\* position of task_id in _task_ids, 0 for ValueError
IndexOf(task_ids, task_id) ==
    IF \E k \in DOMAIN task_ids : task_ids[k] = task_id
    THEN CHOOSE k \in DOMAIN task_ids : task_ids[k] = task_id
    ELSE 0

\* action_cursor_down
CursorDown(u) ==
    LET r == [u EXCEPT !.clipboard_ready = TRUE]
        idx == IndexOf(u.task_ids, u.selected)
    IN  IF u.task_ids = <<>> THEN r
        ELSE IF u.selected = None \/ idx = 0 THEN [r EXCEPT !.selected = u.task_ids[1]]
        ELSE IF idx < Len(u.task_ids) THEN [r EXCEPT !.selected = u.task_ids[idx + 1]]
        ELSE r

\* action_cursor_up
CursorUp(u) ==
    LET r == [u EXCEPT !.clipboard_ready = TRUE]
        idx == IndexOf(u.task_ids, u.selected)
    IN  IF u.task_ids = <<>> THEN r
        ELSE IF u.selected = None \/ idx = 0
             THEN [r EXCEPT !.selected = u.task_ids[Len(u.task_ids)]]
        ELSE IF idx > 1 THEN [r EXCEPT !.selected = u.task_ids[idx - 1]]
        ELSE r

DeletePrompt == "Press d again to delete, Escape to cancel"

\* Faulty variant: the task is deleted at the first press.
DeletePressAtOnce(u) ==
    LET r == [u EXCEPT !.clipboard_ready = TRUE]
    IN  IF u.selected = None THEN r
        ELSE Post(Post([r EXCEPT !.delete_pending = FALSE], StatusBarUpdate("")),
                  TaskDeleted(u.selected))

\* action_delete_press
DeletePress(u) ==
    LET r == [u EXCEPT !.clipboard_ready = TRUE]
    IN  IF u.selected = None THEN r
        ELSE IF ~u.delete_pending
             THEN Post([r EXCEPT !.delete_pending = TRUE, !.armed = u.selected],
                       StatusBarUpdate(DeletePrompt))
        ELSE Post(Post([r EXCEPT !.delete_pending = FALSE], StatusBarUpdate("")),
                  TaskDeleted(u.selected))

\* Faulty variant: the clipboard is cleared along with the pending delete.
CancelDeleteBoth(u) ==
    IF u.delete_pending
    THEN Post([u EXCEPT !.delete_pending = FALSE, !.clipboard = None,
                        !.clipboard_mode = "none"], StatusBarUpdate(""))
    ELSE IF u.clipboard # None
    THEN Post([u EXCEPT !.clipboard = None, !.clipboard_mode = "none"],
              StatusBarUpdate(""))
    ELSE Post(u, EscapePressedInList)

\* action_cancel_delete
CancelDelete(u) ==
    IF u.delete_pending
    THEN Post([u EXCEPT !.delete_pending = FALSE], StatusBarUpdate(""))
    ELSE IF u.clipboard # None
    THEN Post([u EXCEPT !.clipboard = None, !.clipboard_mode = "none"],
              StatusBarUpdate(""))
    ELSE Post(u, EscapePressedInList)

\* action_copy_task, action_cut_task: the clipboard takes the Task of the
\* selected row, of which the id and the title are kept here
ClipTask(u, at, mode, text) ==
    IF ~u.clipboard_ready \/ SelectedTask(u) = None THEN u
    ELSE Post([u EXCEPT !.clipboard = SelectedTask(u),
                        !.clipboard_title = at[SelectedTask(u)].title,
                        !.clipboard_mode = mode],
              StatusBarUpdate(text))

\* Faulty variant: a cut task stays on the clipboard after the paste.
PasteTaskKeepsCut(u, ts) ==
    IF ~u.clipboard_ready \/ u.clipboard = None THEN u
    ELSE LET selected_task == SelectedTask(u)
             category == IF selected_task # None THEN ts[selected_task].category ELSE NULL
             delete_source_id == IF u.clipboard_mode = "cut" THEN u.clipboard ELSE None
         IN  Post(u, TaskPasted(u.clipboard_title, category, selected_task,
                                delete_source_id))

\* action_paste_task
PasteTask(u, ts) ==
    IF ~u.clipboard_ready \/ u.clipboard = None THEN u
    ELSE LET selected_task == SelectedTask(u)
             category == IF selected_task # None THEN ts[selected_task].category ELSE NULL
             delete_source_id == IF u.clipboard_mode = "cut" THEN u.clipboard ELSE None
             posted == Post(u, TaskPasted(u.clipboard_title, category,
                                          selected_task, delete_source_id))
         IN  IF u.clipboard_mode = "cut"
             THEN [posted EXCEPT !.clipboard = None, !.clipboard_mode = "none"]
             ELSE posted

\* action_edit_append, _start_edit, start_edit
EditAppend(u) ==
    LET r == [u EXCEPT !.clipboard_ready = TRUE]
    IN  IF SelectedTask(u) = None \/ u.editing THEN r
        ELSE [r EXCEPT !.editing = TRUE, !.focus = "edit",
                       !.row = [kind |-> "edit", after |-> u.selected,
                                category |-> NULL]]

\* show_input(): the row goes after the selected row, else to the end of a
\* list that has children, else into #input-container
ShowInput(u, ts) ==
    IF u.editing THEN u
    ELSE LET selected_task == SelectedTask(u)
             new_row == [kind |-> "input", after |-> selected_task,
                         category |-> IF selected_task # None
                                      THEN ts[selected_task].category ELSE NULL]
             r == [u EXCEPT !.editing = TRUE, !.focus = "input", !.opened = new_row]
         IN  IF selected_task # None \/ u.task_ids # <<>> \/ u.row.kind # "none"
             THEN [r EXCEPT !.row = new_row]
             ELSE [r EXCEPT !.container = @ + 1]

\* action_add_task
AddTask(u, ts) ==
    IF u.editing \/ u.search_mode THEN u
    ELSE ShowInput(u, ts)

\* action_start_search
StartSearch(u) ==
    IF u.editing \/ u.search_mode THEN u
    ELSE [u EXCEPT !.search_mode = TRUE, !.status_bar.hidden = TRUE,
                   !.search_input = u.search_term, !.focus = "search"]

\* Faulty variant: leaving search mode drops the term.
CancelInputDropsTerm(u, ts, at) ==
    IF u.search_mode
    THEN {[ExitSearchMode([u EXCEPT !.search_term = ""]) EXCEPT !.focus = "list"]}
    ELSE IF u.search_term # ""
    THEN LoadTasks([u EXCEPT !.search_term = "", !.status_bar = SearchStatusBar("")],
                   ts, at, u.selected, TRUE)
    ELSE {HideEdit(v) : v \in HideInput(u)}

\* action_cancel_input: the screens it can leave
CancelInput(u, ts, at) ==
    IF u.search_mode
    THEN {[ExitSearchMode(u) EXCEPT !.focus = "list"]}
    ELSE IF u.search_term # ""
    THEN LoadTasks([u EXCEPT !.search_term = "", !.status_bar = SearchStatusBar("")],
                   ts, at, u.selected, TRUE)
    ELSE {HideEdit(v) : v \in HideInput(u)}

\* on_status_bar_update
OnStatusBarUpdate(u, text) ==
    IF u.search_mode THEN u
    ELSE IF text # "" THEN [u EXCEPT !.status_bar = [hidden |-> FALSE, text |-> <<text>>]]
    ELSE [u EXCEPT !.status_bar = SearchStatusBar(u.search_term)]

\* on_task_deleted: the task to select after the deletion
NextTaskId(task_ids, task_id) ==
    LET idx == IndexOf(task_ids, task_id)
    IN  IF idx = 0 THEN None
        ELSE IF idx < Len(task_ids) THEN task_ids[idx + 1]
        ELSE IF idx > 1 THEN task_ids[idx - 1]
        ELSE None

\* on_escape_pressed_in_list: the screens it can leave
OnEscapePressedInList(u, ts, at) ==
    IF u.search_term # ""
    THEN LoadTasks([u EXCEPT !.search_term = "", !.status_bar = SearchStatusBar("")],
                   ts, at, u.selected, TRUE)
    ELSE {u}

\* on_search_submitted, and on_search_cancelled with the value of the search
\* input as the term (none to read once the row is gone)
OnSearchEnd(u, ts, at, term) ==
    LoadTasks(ExitSearchMode([u EXCEPT !.search_term = term]), ts, at, u.selected, TRUE)

\* the store with the screen not yet mounted
InitUi ==
    \E n \in 0..MaxStored :
        OldStore(CURRENT_SCHEMA_VERSION, CURRENT_SCHEMA_VERSION, n, {"pending"}, {1})

\* on_mount, _initialize_database, _load_tasks
Mount ==
    /\ ~ui.mounted
    /\ ui' \in LoadTasks(Handling([ui EXCEPT !.mounted = TRUE], "on_mount", NoMessage),
                         tasks, attrs, None, TRUE)
    /\ pre' = tasks
    /\ UNCHANGED <<tasks, attrs, call>>
    /\ UNCHANGED <<nextId, created, conn, run, listed, schema, cli, last>>

\* a key or click reaches its handler: one more of the session
Pressed(name) ==
    /\ ui.mounted
    /\ call.calls < MaxKeys
    /\ call' = Called
    /\ pre' = tasks
    /\ UNCHANGED <<tasks, attrs>>
    /\ UNCHANGED <<nextId, created, conn, run, listed, schema, cli, last>>

\* the bindings of SimpleTaskList, the list focused
ListKey(key) ==
    /\ ui.focus = "list"
    /\ Pressed(key)
    /\ LET u == Handling(ui, key, NoMessage)
       IN  ui' = CASE key = "j" -> CursorDown(u)
                   [] key = "k" -> CursorUp(u)
                   [] key = "d" -> DeletePress(u)
                   [] key = "escape" -> CancelDelete(u)
                   [] key = "y" -> ClipTask(u, attrs, "copy", "Task copied")
                   [] key = "x" -> ClipTask(u, attrs, "cut", "Task cut")
                   [] key = "p" -> PasteTask(u, tasks)
                   [] key = "i" -> EditAppend(u)

\* the search input focused: a change of its text, on_input_changed
SearchType(value) ==
    /\ ui.focus = "search"
    /\ value # ui.search_input
    /\ Pressed("search_type")
    /\ LET u == [Handling(ui, "search_type", NoMessage) EXCEPT !.search_input = value]
       IN  IF u.search_mode
           THEN ui' \in LoadTasks([u EXCEPT !.search_term = value], tasks, attrs,
                                  u.selected, FALSE)
           ELSE ui' = u

\* the search input focused: Enter (on_input_submitted of the app) or
\* Escape (action_cancel of SearchInputRow)
SearchKey(key) ==
    /\ ui.focus = "search"
    /\ Pressed(key)
    /\ LET u == Handling(ui, key, NoMessage)
       IN  ui' = IF key = "search_enter" THEN Post(u, SearchSubmitted(u.search_input))
                 ELSE Post(u, SearchCancelled)

\* the new-task or the edit input focused: Escape, action_cancel of the row
RowEscape ==
    /\ ui.focus \in {"input", "edit"}
    /\ Pressed("row_escape")
    /\ ui' = Post(Handling(ui, "row_escape", NoMessage), InputCancelled)

\* the bindings of the app, also through the footer
AppAction(name) ==
    /\ Pressed(name)
    /\ LET u == Handling(ui, name, NoMessage)
       IN  ui' \in CASE name = "add_task" -> {AddTask(u, tasks)}
                     [] name = "start_search" -> {StartSearch(u)}
                     [] name = "cancel_input" -> CancelInput(u, tasks, attrs)
                     [] name = "hide_completed" ->
                          LoadTasks([u EXCEPT !.hide_completed = ~u.hide_completed],
                                    tasks, attrs, u.selected, TRUE)

\* the oldest message posted reaches its handler
Dispatch ==
    /\ ui.mounted
    /\ ui.inbox # <<>>
    /\ Head(ui.inbox).type \notin {"TaskCreated", "TaskEdited"}
    /\ LET message == Head(ui.inbox)
           u == [Handling(ui, "dispatch", message) EXCEPT !.inbox = Tail(ui.inbox)]
       IN  IF message.type = "TaskDeleted"
           THEN /\ tasks' = Delete(tasks, message.id)
                /\ attrs' = OtherColumns(attrs, tasks')
                /\ ui' \in LoadTasks(u, tasks', attrs', NextTaskId(u.task_ids, message.id),
                                     TRUE)
           ELSE /\ UNCHANGED <<tasks, attrs>>
                /\ ui' \in
                     CASE message.type = "StatusBarUpdate" ->
                            {OnStatusBarUpdate(u, message.text)}
                       [] message.type = "EscapePressedInList" ->
                            OnEscapePressedInList(u, tasks, attrs)
                       [] message.type = "SearchSubmitted" ->
                            OnSearchEnd(u, tasks, attrs, message.text)
                       [] message.type = "SearchCancelled" ->
                            OnSearchEnd(u, tasks, attrs,
                                        IF u.search_mode THEN u.search_input
                                        ELSE u.search_term)
                       [] message.type = "InputCancelled" ->
                            HideInput(HideEdit(u))
                       [] message.type = "TaskPasted" -> {u}
    /\ pre' = tasks
    /\ UNCHANGED call
    /\ UNCHANGED <<nextId, created, conn, run, listed, schema, cli, last>>

NextUi ==
    \/ Mount
    \/ \E key \in {"j", "k", "d", "escape", "y", "x", "p", "i"} : ListKey(key)
    \/ \E value \in {"", "t", "z"} : SearchType(value)
    \/ \E key \in {"search_enter", "search_escape"} : SearchKey(key)
    \/ RowEscape
    \/ \E name \in {"add_task", "start_search", "cancel_input", "hide_completed"} : AppAction(name)
    \/ Dispatch

SpecUi == InitUi /\ [][NextUi]_vars

\* ------------------------------------------------------- parse_task_title
MaxLen == 4          \* characters of a raw title

\* the string whose characters are chars
Text(chars) ==
    CHOOSE text \in {"", " ", "t", "z", "#", "work", "t #work"} : Chars(text) = chars

\* str.strip()
Strip(chars) ==
    LET kept == {k \in DOMAIN chars : chars[k] # " "}
    IN  IF kept = {} THEN <<>> ELSE SubSeq(chars, MinOf(kept), MaxOf(kept))

\* the split of raw_title at index at; the whole for an empty part
SplitAt(raw_title, at) ==
    LET title_part == Strip(SubSeq(raw_title, 1, at - 1))
        category_part == Strip(SubSeq(raw_title, at + 1, Len(raw_title)))
    IN  IF category_part = <<>> \/ title_part = <<>>
        THEN [title |-> Strip(raw_title), category |-> NoCategory]
        ELSE [title |-> title_part, category |-> category_part]

\* Faulty variant: the split is made at the first '#'.
ParseTaskTitleFirstHash(raw_title) ==
    LET hashes == {k \in DOMAIN raw_title : raw_title[k] = "#"}
    IN  IF hashes = {} THEN [title |-> Strip(raw_title), category |-> NoCategory]
        ELSE SplitAt(raw_title, MinOf(hashes))

\* parse_task_title
ParseTaskTitle(raw_title) ==
    LET hashes == {k \in DOMAIN raw_title : raw_title[k] = "#"}
    IN  IF hashes = {} THEN [title |-> Strip(raw_title), category |-> NoCategory]
        ELSE SplitAt(raw_title, MaxOf(hashes))

\* a raw title in the input, nothing stored
InitParse ==
    /\ tasks = <<>> /\ attrs = <<>> /\ nextId = 1
    /\ schema = Recorded({CURRENT_SCHEMA_VERSION})
    /\ created = 0 /\ pre = tasks
    /\ last = Op("open", NULL, None, None, None, 0)
    /\ conn = Closed /\ run = NoRun /\ listed = <<>>
    /\ cli = NoCli /\ call = Idle
    /\ \E n \in 0..MaxLen : \E raw_title \in [1..n -> {"t", " ", "#"}] :
         ui = [NoUi EXCEPT !.typed = raw_title]

\* parse_task_title(raw_title)
ParseRaw ==
    /\ ui.key = "none"
    /\ ui' = [ui EXCEPT !.key = "parse_task_title", !.parsed = ParseTaskTitle(ui.typed)]
    /\ UNCHANGED <<tasks, nextId, created, pre, last, conn, run, listed, attrs,
                   schema, cli, call>>

\* the title stored for the text submitted in an input row: on_input_submitted
\* passes event.value.strip() when it is not empty; on_task_created parses
\* it, on_task_edited stores it as it is
ParseSubmitted(input_id) ==
    /\ ui.key = "none"
    /\ Strip(ui.typed) # <<>>
    /\ ui' = [ui EXCEPT !.key = "on_input_submitted",
                        !.parsed = IF input_id = "new-task-input"
                                   THEN ParseTaskTitle(Strip(ui.typed))
                                   ELSE [title |-> Strip(ui.typed),
                                         category |-> NoCategory]]
    /\ UNCHANGED <<tasks, nextId, created, pre, last, conn, run, listed, attrs,
                   schema, cli, call>>

NextParse ==
    \/ ParseRaw
    \/ \E input_id \in {"new-task-input", "edit-task-input"} : ParseSubmitted(input_id)

SpecParse == InitParse /\ [][NextParse]_vars

\* ---------------------------------------------------------- the input rows
MaxSubmit == 2       \* texts submitted in one session

\* on_input_submitted of TaskListView, "new-task-input": the screens it can
\* leave. The row found first gives default_category and after_task_id; a
\* row of #input-container has none, and none are read when query_one raises
SubmitNew(u, value) ==
    LET stripped == Strip(Chars(value))
        row == IF u.container = 0 /\ u.row.kind = "input" THEN u.row ELSE NoRow
        posted == Post(u, [type |-> "TaskCreated", id |-> 0, text |-> Text(stripped),
                           after |-> row.after, category |-> row.category,
                           row |-> u.opened])
    IN  IF stripped = <<>> THEN {u}
        ELSE {[v EXCEPT !.editing = FALSE,
                        !.focus = IF v.container = 0 /\ v.row.kind # "input"
                                  THEN "none" ELSE "input"] :
                v \in RemoveNewTaskInputRow(posted)}

\* on_input_submitted of TaskListView, "edit-task-input"
SubmitEdit(u, value) ==
    LET stripped == Strip(Chars(value))
    IN  IF stripped = <<>> \/ u.row.kind # "edit" THEN u
        ELSE [Post(u, [NoMessage EXCEPT !.type = "TaskEdited", !.id = u.row.after,
                                        !.text = Text(stripped)])
                EXCEPT !.editing = FALSE, !.row = NoRow, !.focus = "none"]

\* Enter in the input of a new-task row or of an edit row
InputSubmitted(value) ==
    /\ ui.mounted
    /\ ui.focus \in {"input", "edit"}
    /\ ui.submitted < MaxSubmit
    /\ LET u == [Handling(ui, "submit", NoMessage) EXCEPT !.submitted = @ + 1]
       IN  ui' \in IF ui.focus = "input" THEN SubmitNew(u, value)
                   ELSE {SubmitEdit(u, value)}
    /\ pre' = tasks
    /\ UNCHANGED <<tasks, attrs, call>>
    /\ UNCHANGED <<nextId, created, conn, run, listed, schema, cli, last>>

\* on_task_created: hide_input, parse_task_title, create_task_at_position,
\* _load_tasks and, after the refresh, show_input
OnTaskCreated ==
    /\ ui.mounted
    /\ ui.inbox # <<>>
    /\ Head(ui.inbox).type = "TaskCreated"
    /\ LET event == Head(ui.inbox)
           u == [Handling(ui, "dispatch", event) EXCEPT !.inbox = Tail(ui.inbox)]
           parsed == ParseTaskTitle(Chars(event.text))
           category == IF parsed.category # NoCategory THEN Text(parsed.category)
                       ELSE event.category
       IN  \E rows \in RowOrders(tasks, category), hidden \in HideInput(u) :
             LET r == CreateTaskAtPositionRow(tasks, nextId, category, event.after,
                                              None, rows)
             IN  /\ tasks' = r.tasks
                 /\ attrs' = [OtherColumns(attrs, tasks') EXCEPT
                                ![nextId].title = Text(parsed.title)]
                 /\ last' = Op("create_task_at_position", category, event.after,
                               None, nextId, r.rebalances)
                 /\ \E loaded \in LoadTasks(hidden, tasks', attrs', nextId, TRUE) :
                      ui' = ShowInput(loaded, tasks')
    /\ nextId' = nextId + 1
    /\ created' = created + 1
    /\ pre' = tasks
    /\ UNCHANGED <<conn, run, listed, schema, cli, call>>

\* on_task_edited: hide_edit, update_task_title, _load_tasks
OnTaskEdited ==
    /\ ui.mounted
    /\ ui.inbox # <<>>
    /\ Head(ui.inbox).type = "TaskEdited"
    /\ LET event == Head(ui.inbox)
           u == [Handling(ui, "dispatch", event) EXCEPT !.inbox = Tail(ui.inbox)]
           t == UpdateTaskTitleRows(tasks, attrs, event.id, event.text)
       IN  /\ tasks' = t.tasks
           /\ attrs' = t.attrs
           /\ ui' \in LoadTasks(HideEdit(u), tasks', attrs', event.id, TRUE)
    /\ pre' = tasks
    /\ last' = Op("update_task_title", NULL, None, None, Head(ui.inbox).id, 0)
    /\ UNCHANGED <<nextId, created, conn, run, listed, schema, cli, call>>

NextInput ==
    \/ Mount
    \/ \E key \in {"j", "i"} : ListKey(key)
    \/ \E name \in {"add_task", "cancel_input", "hide_completed"} : AppAction(name)
    \/ RowEscape
    \/ \E value \in {"t", "t #work", " "} : InputSubmitted(value)
    \/ Dispatch
    \/ OnTaskCreated
    \/ OnTaskEdited

SpecInput == InitUi /\ [][NextInput]_vars


\* ================================================================ claims
\* The operation the state comes from, read off the history variables.
IsCreateAt == last.op = "create_task_at_position"
NewKey == tasks[last.id].order_value
BeforeInForce == last.before # None
AfterInForce == last.before = None /\ last.after # None
\* the rows the target category held when the call was made
Group == {i \in DOMAIN pre : pre[i].category = last.category}
GroupKeys == {pre[i].order_value : i \in Group}
KeptAll == \A i \in DOMAIN pre : i \in DOMAIN tasks /\ tasks[i] = pre[i]
\* the key an append at the end of the target category gets
IsAppendKey(k) ==
    IF GroupKeys = {} THEN k = 1000
    ELSE k - 1000 \in GroupKeys /\ \A x \in GroupKeys : x <= k - 1000

\* C1: any two distinct tasks of the same category have different
\* order_value keys, in every state the operations reach.
C1_Uniqueness ==
    \A i, j \in DOMAIN tasks :
        (i # j /\ tasks[i].category = tasks[j].category)
            => tasks[i].order_value # tasks[j].order_value

\* C2: after create_task_at_position(before_task_id = Y), Y a task of the
\* target category, the new key is below Y's key and above the key of every
\* task that preceded Y in the category.
C2_InsertBeforePlacement ==
    (IsCreateAt /\ BeforeInForce /\ last.before \in Group) =>
        /\ NewKey < tasks[last.before].order_value
        /\ \A p \in Group :
             pre[p].order_value < pre[last.before].order_value
                => tasks[p].order_value < NewKey

\* C3: after create_task_at_position(after_task_id = X), X a task of the
\* target category, the new key is above X's key and below the key of every
\* task that followed X in the category.
C3_InsertAfterPlacement ==
    (IsCreateAt /\ AfterInForce /\ last.after \in Group) =>
        /\ NewKey > tasks[last.after].order_value
        /\ \A f \in Group :
             pre[f].order_value > pre[last.after].order_value
                => NewKey < tasks[f].order_value

\* C3 witness: an insertion after X that had a follower at gap 1, so that the
\* category was rebalanced on the way.
C3_Witness ==
    /\ IsCreateAt /\ AfterInForce /\ last.after \in Group
    /\ last.rebalances = 1
    /\ \E f \in Group : pre[f].order_value = pre[last.after].order_value + 1

\* C4: an allocation that rebalanced returns a key strictly between the
\* refreshed keys of the reference task and its neighbour in the target
\* category, and equal to no key of the category.
C4_ExhaustionRetry ==
    (IsCreateAt /\ last.rebalances > 0) =>
        LET others == {i \in DOMAIN tasks \ {last.id} :
                          tasks[i].category = last.category}
            ref == IF BeforeInForce THEN tasks[last.before].order_value
                   ELSE tasks[last.after].order_value
        IN  /\ \A o \in others : tasks[o].order_value # NewKey
            /\ IF BeforeInForce
               THEN /\ NewKey < ref
                    /\ \A o \in others :
                         tasks[o].order_value < ref => tasks[o].order_value < NewKey
               ELSE /\ NewKey > ref
                    /\ \A o \in others :
                         tasks[o].order_value > ref => NewKey < tasks[o].order_value

\* C5: a rebalance of a category of n tasks gives the task that was k-th
\* (0-based) in ascending key order the key (k+1)*1000; the keys are exactly
\* 1000, 2000, ..., n*1000 and the relative order is kept.
C5_RebalanceResult ==
    (IsCreateAt /\ last.rebalances > 0) =>
        /\ \A i \in Group :
             LET below == Cardinality({j \in Group :
                              pre[j].order_value < pre[i].order_value})
                 upto == Cardinality({j \in Group :
                              pre[j].order_value <= pre[i].order_value})
             IN  \E k \in below..(upto - 1) : tasks[i].order_value = (k + 1) * 1000
        /\ {tasks[i].order_value : i \in Group}
              = {k * 1000 : k \in 1..Cardinality(Group)}
        /\ \A i, j \in Group :
             pre[i].order_value < pre[j].order_value
                => tasks[i].order_value < tasks[j].order_value

\* C5 witness: a rebalance of a category of at least three tasks.
C5_Witness ==
    IsCreateAt /\ last.rebalances > 0 /\ Cardinality(Group) >= 3

\* C6: create_task_at_position into category A, rebalancing or not, leaves
\* every task of another category as it was, also when the reference task is
\* of another category.
C6_GroupIsolation ==
    IsCreateAt =>
        \A i \in DOMAIN pre :
            pre[i].category # last.category
                => i \in DOMAIN tasks /\ tasks[i] = pre[i]

\* C6 witness: an insertion before a task of another category that
\* rebalanced the target category.
C6_Witness ==
    /\ IsCreateAt /\ BeforeInForce /\ last.rebalances > 0
    /\ last.before \in DOMAIN pre /\ last.before \notin Group

\* the gap between the reference task and its neighbour in the target
\* category was <= 1 when the call was made
C7_Exhausted ==
    \/ /\ BeforeInForce /\ last.before \in DOMAIN pre
       /\ \E p \in Group :
            /\ pre[p].order_value < pre[last.before].order_value
            /\ pre[last.before].order_value - pre[p].order_value <= 1
    \/ /\ AfterInForce /\ last.after \in Group
       /\ \E n \in Group :
            /\ pre[n].order_value > pre[last.after].order_value
            /\ pre[n].order_value - pre[last.after].order_value <= 1

\* C7: create_task_at_position changes the key of an existing task only if
\* the gap between the reference task and its neighbour in the target
\* category was <= 1; otherwise every existing task keeps its key.
C7_NoDisturbance ==
    (IsCreateAt /\ ~C7_Exhausted) => KeptAll

\* C7 witness: an insertion before a task whose predecessor is at gap 2.
C7_Witness ==
    /\ IsCreateAt /\ BeforeInForce /\ last.before \in Group
    /\ \E p \in Group : pre[last.before].order_value - pre[p].order_value = 2
    /\ ~C7_Exhausted

\* C8: create_task_at_position with neither reference assigns the maximum
\* key of the category (0 if it is empty) + 1000.
C8_EndOfGroupAppend ==
    (IsCreateAt /\ last.after = None /\ last.before = None) => IsAppendKey(NewKey)

\* C8 witness: an append to a non-empty category while another category
\* holds a larger key.
C8_Witness ==
    /\ IsCreateAt /\ last.after = None /\ last.before = None
    /\ GroupKeys # {}
    /\ \E i \in DOMAIN pre : \A x \in GroupKeys : pre[i].order_value > x

\* C9: create_task assigns the maximum key of its category (0 if it is
\* empty) + 1000, whatever keys other categories hold.
C9_CreateTaskPerCategory ==
    last.op = "create_task" => IsAppendKey(NewKey)

\* the reference in force names no row
C10_Stale ==
    \/ BeforeInForce /\ last.before \notin DOMAIN pre
    \/ AfterInForce /\ last.after \notin DOMAIN pre

\* C10: with a reference that names no task, create_task_at_position
\* assigns the append key of the target category and changes no other task.
C10_StaleFallback ==
    (IsCreateAt /\ C10_Stale) =>
        /\ IsAppendKey(NewKey)
        /\ KeptAll
        /\ DOMAIN tasks = DOMAIN pre \cup {last.id}

\* C10 witness: a stale before_task_id, target category not empty.
C10_Witness ==
    IsCreateAt /\ BeforeInForce /\ last.before \notin DOMAIN pre /\ GroupKeys # {}
\* C11: with an after_task_id naming a task of another category, the new key
\* is the maximum key of the target category (0 if it is empty) + 1000; the
\* referenced task's key plays no part.
C11_CrossGroupAfter ==
    (IsCreateAt /\ AfterInForce /\ last.after \in DOMAIN pre /\ last.after \notin Group)
        => IsAppendKey(NewKey)

\* C11 witness: an insertion into a non-empty labelled category after a task
\* of the absent-label category whose key is none of the target's keys.
C11_Witness ==
    /\ IsCreateAt /\ AfterInForce /\ last.after \in DOMAIN pre
    /\ last.category # NULL /\ pre[last.after].category = NULL
    /\ GroupKeys # {}
    /\ pre[last.after].order_value \notin GroupKeys

\* the tables the call with only before_task_id can leave
C12_BeforeOnly ==
    {CreateTaskAtPositionRow(pre, last.id, last.category, None, last.before, rows).tasks :
        rows \in RowOrders(pre, last.category)}

\* the tables the call with only after_task_id can leave
C12_AfterOnly ==
    {CreateTaskAtPositionRow(pre, last.id, last.category, last.after, None, rows).tasks :
        rows \in RowOrders(pre, last.category)}

\* C12: with both after_task_id and before_task_id supplied, the call leaves
\* the table, and so the new key, that the call with only before_task_id
\* leaves.
C12_BeforeWins ==
    (IsCreateAt /\ last.after # None /\ last.before # None) => tasks \in C12_BeforeOnly

\* C12 witness: both references name stored tasks and the call with only
\* after_task_id would have given another key.
C12_Witness ==
    /\ IsCreateAt /\ last.after \in DOMAIN pre /\ last.before \in DOMAIN pre
    /\ tasks \notin C12_AfterOnly

\* no task of the target category had a key below that of before_task_id
C13_NoSmaller ==
    /\ IsCreateAt /\ BeforeInForce /\ last.before \in DOMAIN pre
    /\ \A k \in GroupKeys : k >= pre[last.before].order_value

C14_MidpointValue ==
    /\ (IsCreateAt /\ BeforeInForce /\ last.before \in DOMAIN pre) =>
          LET H == pre[last.before].order_value
          IN  \A p \in Group :
                LET L == pre[p].order_value
                IN  (/\ L < H /\ H - L > 1
                     /\ \A q \in Group : pre[q].order_value < H => pre[q].order_value <= L)
                        => (NewKey = (L + H) \div 2 /\ L < NewKey /\ NewKey < H)
    /\ (IsCreateAt /\ AfterInForce /\ last.after \in Group) =>
          LET L == pre[last.after].order_value
          IN  /\ \A n \in Group :
                   LET H == pre[n].order_value
                   IN  (/\ L < H /\ H - L > 1
                        /\ \A q \in Group : pre[q].order_value > L => pre[q].order_value >= H)
                           => (NewKey = (L + H) \div 2 /\ L < NewKey /\ NewKey < H)
              /\ (\A n \in Group : pre[n].order_value <= L) => NewKey = L + 1000

\* C14 witness: an insertion after a task whose follower is 3 above it.
C14_Witness ==
    /\ IsCreateAt /\ AfterInForce /\ last.after \in Group
    /\ \E n \in Group : pre[n].order_value = pre[last.after].order_value + 3
    /\ NewKey = pre[last.after].order_value + 1

\* C15: the rebalance and the INSERT of one create_task_at_position call are
\* committed together: while the call is in flight and after it failed,
\* whether before, between or after the rebalancer's UPDATEs, the stored
\* table is the one the call found; after the commit it is the rebalanced
\* table with the new row.
C15_RebalanceAtomicity ==
    /\ conn.state = "open" => tasks = pre
    /\ (conn.state = "closed" /\ last.op = "failed") => tasks = pre
    /\ (conn.state = "closed" /\ IsCreateAt) =>
          \E rows \in RowOrders(pre, last.category) :
              tasks = CreateTaskAtPositionRow(pre, last.id, last.category,
                                              last.after, last.before, rows).tasks

\* C15 witness: a call that failed after the first and before the last
\* UPDATE of its rebalance, the connection holding changed keys.
C15_Witness ==
    /\ conn.state = "closed" /\ last.op = "failed"
    /\ conn.done >= 1 /\ conn.done < Len(conn.rows)
    /\ \E i \in DOMAIN tasks : conn.view[i].order_value # tasks[i].order_value

\* C16: the tasks of a run, each created in one category after the task the
\* previous creation gave, have strictly increasing keys in creation order,
\* whatever rebalances the creations made.
C16_OrderPreservation ==
    \A i, j \in 1..Len(run.ids) :
        i < j => tasks[run.ids[i]].order_value < tasks[run.ids[j]].order_value

\* C16 witness: a run of at least three tasks whose last creation rebalanced
\* the category and so changed the key of the run's first task.
C16_Witness ==
    /\ Len(run.ids) >= 3
    /\ last.rebalances = 1
    /\ tasks[run.ids[1]].order_value # pre[run.ids[1]].order_value

\* the gap between before_task_id and the greatest smaller key of the target
\* category was <= 1 when the call was made
C17_GapExhausted ==
    \E p \in Group :
        /\ pre[p].order_value < pre[last.before].order_value
        /\ pre[last.before].order_value - pre[p].order_value <= 1

\* C17: every call stores its task with a key and rebalances at most once;
\* an insertion before a stored task B rebalances exactly when the gap
\* between B and its predecessor is <= 1; and when the previous insertion
\* before the same B rebalanced, this one takes the midpoint of B and its
\* predecessor without a rebalance.
C17_BoundedRetry ==
    /\ IsCreateAt => (last.id \in DOMAIN tasks /\ last.rebalances \in {0, 1})
    /\ (IsCreateAt /\ BeforeInForce /\ last.before \in DOMAIN pre) =>
          (last.rebalances = 1 <=> C17_GapExhausted)
    /\ (IsCreateAt /\ BeforeInForce /\ run.reps >= 2 /\ run.prev = 1) =>
          /\ last.rebalances = 0
          /\ \E p \in Group :
               /\ pre[p].order_value < pre[last.before].order_value
               /\ \A q \in Group :
                    pre[q].order_value < pre[last.before].order_value
                       => pre[q].order_value <= pre[p].order_value
               /\ NewKey = (pre[p].order_value + pre[last.before].order_value) \div 2

\* the key of the i-th task of the run
C18_Key(i) == tasks[run.ids[i]].order_value

\* C18: in a category that holds no task, A created with no reference gets
\* 1000, B after A 2000, C before B 1500, D before B 1750; each further
\* insertion before B rebalances exactly if it finds B and its predecessor
\* at gap 1, at most once, and its task is the one right before B.
C18_ReferenceScenario ==
    LET n == Len(run.ids)
    IN  /\ n = 1 => C18_Key(1) = 1000
        /\ n = 2 => (C18_Key(1) = 1000 /\ C18_Key(2) = 2000)
        /\ n = 3 => (C18_Key(1) = 1000 /\ C18_Key(2) = 2000 /\ C18_Key(3) = 1500)
        /\ n = 4 => (C18_Key(1) = 1000 /\ C18_Key(2) = 2000 /\ C18_Key(3) = 1500
                     /\ C18_Key(4) = 1750)
        /\ n >= 3 =>
             /\ last.rebalances \in {0, 1}
             /\ last.rebalances = 1 <=>
                  \E p \in Group : pre[run.ids[2]].order_value - pre[p].order_value = 1
             /\ C18_Key(n) < C18_Key(2)
             /\ \A i \in 1..(n - 1) :
                  C18_Key(i) < C18_Key(2) => C18_Key(i) < C18_Key(n)

\* C18 witness: the insertion before B that found the gap at 1 and
\* rebalanced the category.
C18_Witness ==
    /\ Len(run.ids) >= 5
    /\ run.reps >= 3
    /\ last.rebalances = 1
    /\ \E p \in Group : pre[run.ids[2]].order_value - pre[p].order_value = 1

\* the labels in ascending lexicographic (byte-wise) order, absent label first
C19_LabelOrder == <<NULL, "Work", "home", "wo", "work">>
C19_Rank(category) == CHOOSE k \in 1..Len(C19_LabelOrder) : C19_LabelOrder[k] = category

\* C19: get_all_tasks returns every stored task exactly once, the tasks
\* without category first, then the categories in ascending lexicographic
\* order of their labels, and the tasks of one category in ascending
\* order_value.
C19_ListingOrder ==
    last.op = "get_all_tasks" =>
        /\ Len(listed) = Cardinality(DOMAIN tasks)
        /\ \A i \in DOMAIN tasks :
             \E k \in 1..Len(listed) : listed[k] = Row(tasks, i)
        /\ \A k, m \in 1..Len(listed) :
             k < m =>
                /\ C19_Rank(listed[k].category) <= C19_Rank(listed[m].category)
                /\ listed[k].category = listed[m].category
                      => listed[k].order_value <= listed[m].order_value

\* C19 witness: a listing with a task without category before tasks of two
\* labels, the first of them holding a larger key than the last.
C19_Witness ==
    /\ last.op = "get_all_tasks"
    /\ \E k, m, n \in 1..Len(listed) :
         /\ k < m /\ m < n
         /\ listed[k].category = NULL
         /\ listed[m].category # NULL
         /\ listed[n].category \notin {NULL, listed[m].category}
         /\ listed[k].order_value > listed[n].order_value

\* C20: delete_task removes the row with the given id, if there is one, and
\* leaves every other row, key and category, as it was.
C20_DeleteIsRemoval ==
    last.op = "delete_task" =>
        /\ DOMAIN tasks = DOMAIN pre \ {last.id}
        /\ \A i \in DOMAIN tasks : tasks[i] = pre[i]

\* C20 witness: a task deleted from between two others of its category.
C20_Witness ==
    /\ last.op = "delete_task" /\ last.id \in DOMAIN pre
    /\ \E i, j \in DOMAIN tasks :
         /\ pre[i].category = pre[last.id].category
         /\ pre[j].category = pre[last.id].category
         /\ pre[i].order_value < pre[last.id].order_value
         /\ pre[last.id].order_value < pre[j].order_value
\* C26: after migrate_schema on a version-2 store the n tasks of every
\* category, the one without label included, hold the keys 1000, 2000, ...,
\* n * 1000, one each, a task created later holding the smaller key; so no
\* two tasks of a category share a key.
C26_MigrationBackfill ==
    (last.op = "migrate_schema" /\ schema.from = 2) =>
        \A c \in {tasks[i].category : i \in DOMAIN tasks} :
            LET group == CategoryFilter(tasks, c)
            IN  /\ {tasks[i].order_value : i \in group}
                      = {k * 1000 : k \in 1..Cardinality(group)}
                /\ \A i, j \in group : i # j => tasks[i].order_value # tasks[j].order_value
                /\ \A i, j \in group :
                     attrs[i].created_at > attrs[j].created_at
                        => tasks[i].order_value < tasks[j].order_value

\* C26 witness: a version-2 store migrated that holds two tasks of one
\* category created at different times and a task of another category.
C26_Witness ==
    /\ last.op = "migrate_schema" /\ schema.from = 2
    /\ \E i, j, k \in DOMAIN tasks :
         /\ tasks[i].category = tasks[j].category
         /\ attrs[i].created_at # attrs[j].created_at
         /\ tasks[k].category # tasks[i].category

\* C27: from a recorded version v in 1..4 migrate_schema applies the steps
\* v+1, ..., 4 in this order and no other, records each, and leaves version
\* 4; on a version-4 store and on a store with no recorded version it
\* changes nothing.
C27_MigrationProgress ==
    last.op = "migrate_schema" =>
        LET v == schema.from
        IN  /\ v \in 1..4 =>
                 /\ schema.applied = [k \in 1..(4 - v) |-> v + k]
                 /\ schema.versions = schema.found.versions \cup ((v + 1)..4)
                 /\ GetSchemaVersion(schema.versions) = 4
            /\ v \in {0, 4} =>
                 /\ schema.applied = <<>>
                 /\ schema.versions = schema.found.versions
                 /\ tasks = schema.found.tasks
                 /\ attrs = schema.found.attrs

\* C27 witness: a version-1 store with tasks, one of them completed, taken
\* through the three steps.
C27_Witness ==
    /\ last.op = "migrate_schema" /\ schema.from = 1
    /\ Len(schema.applied) = 3
    /\ \E i \in DOMAIN attrs : attrs[i].status = "completed"
\* C21: update_task_status and update_task_title leave the category and the
\* order_value of every task as they were and neither add nor remove a row,
\* so get_all_tasks can return the same lists of ids after as before.
C21_StatusTitleKeepOrder ==
    last.op \in {"update_task_status", "update_task_title"} =>
        /\ tasks = pre
        /\ ListOrders(tasks, DOMAIN tasks) = ListOrders(pre, DOMAIN pre)

\* C21 witness: a task of a category of two just marked completed.
C21_Witness ==
    /\ last.op = "update_task_status"
    /\ last.id \in DOMAIN tasks
    /\ attrs[last.id].status = "completed"
    /\ \E j \in DOMAIN tasks : j # last.id /\ tasks[j].category = tasks[last.id].category

\* C22: in a version-4 store reached by create_task, update_task_status and
\* the v3 -> v4 migration, a task has a completed_at exactly when its status
\* is completed.
C22_CompletedAtIffCompleted ==
    Migrated =>
        \A i \in DOMAIN attrs :
            attrs[i].completed_at # NoTime <=> attrs[i].status = "completed"

\* C22 witness: a store migrated from version 3 in which a task found
\* completed has been reopened and one found pending has been completed.
C22_Witness ==
    /\ schema.from = 3
    /\ last.op = "update_task_status"
    /\ \E i, j \in DOMAIN attrs :
         /\ i \in DOMAIN schema.found.attrs /\ j \in DOMAIN schema.found.attrs
         /\ schema.found.attrs[i].status = "completed" /\ attrs[i].status = "pending"
         /\ schema.found.attrs[j].status = "pending" /\ attrs[j].status = "completed"
\* C25: a connection is open exactly while a method of Database is inside
\* its with block, also on the way out of a block that raised; none is open
\* between two methods, and never more than one.
C25_ScopedConnection ==
    /\ call.open <= 1
    /\ call.pc \in {"idle", "between"} => call.open = 0
    /\ call.pc \in {"body", "version", "unwinding"} => call.open = 1

\* C25 witness: a second call is inside its block after the first call's
\* block raised.
C25_Witness ==
    /\ call.calls = 2
    /\ call.raised = 1
    /\ call.pc = "body"
    /\ call.op = "create_task_at_position"
\* the run met one of the errors: no tasks.db, no task of that id, edit
\* without a field, mark without exactly one of its two flags
C24_Error ==
    \/ ~cli.present
    \/ cli.command \in {"edit", "mark"} /\ cli.id \notin DOMAIN pre
    \/ cli.command = "edit" /\ cli.fields = {}
    \/ cli.command = "mark" /\ cli.complete = cli.incomplete

\* C24: a run of ls, edit or mark ends with exit status 1 when it met an
\* error and with 0 when it did not; after a run of mark without error the
\* task has the status asked for, after one of edit with --name the new
\* title.
C24_CliExitStatus ==
    cli.command # "none" =>
        /\ cli.outcome \in {"returns", "SystemExit"}
        /\ cli.code = IF C24_Error THEN 1 ELSE 0
        /\ (cli.command = "mark" /\ ~C24_Error) =>
              attrs[cli.id].status = IF cli.complete THEN "completed" ELSE "pending"
        /\ (cli.command = "edit" /\ ~C24_Error /\ "name" \in cli.fields) =>
              attrs[cli.id].title = "u"
\* the messages the handler that ran last has posted
Posted ==
    IF Len(ui.inbox) > ui.was.posted
    THEN SubSeq(ui.inbox, ui.was.posted + 1, Len(ui.inbox)) ELSE <<>>
PostedTaskDeleted == \E k \in DOMAIN Posted : Posted[k].type = "TaskDeleted"
\* the TaskPasted of a cut just handled: X cut, Y selected at the paste
C23_MoveHandled ==
    /\ ui.key = "dispatch"
    /\ ui.handled.type = "TaskPasted"
    /\ ui.handled.id \in DOMAIN pre
    /\ ui.handled.after \in DOMAIN pre
    /\ ui.handled.id # ui.handled.after

\* C23: once the paste of a cut task X with Y selected has been handled, the
\* store holds a task with X's title in Y's category with the next key
\* after Y's, and X is no longer where it was.
C23_Move ==
    C23_MoveHandled =>
        LET x == ui.handled.id
            y == ui.handled.after
        IN  /\ x \notin DOMAIN tasks \/ tasks[x] # pre[x]
            /\ \E n \in DOMAIN tasks :
                 /\ n = x \/ n \notin DOMAIN pre
                 /\ attrs[n].title = ui.handled.text
                 /\ tasks[n].category = tasks[y].category
                 /\ tasks[n].order_value > tasks[y].order_value
                 /\ \A m \in CategoryFilter(tasks, tasks[y].category) :
                      ~(/\ tasks[y].order_value < tasks[m].order_value
                        /\ tasks[m].order_value < tasks[n].order_value)

C29_EscapePriority ==
    /\ ui.key = "escape" =>
          IF ui.was.delete_pending
          THEN /\ ~ui.delete_pending
               /\ ui.clipboard = ui.was.clipboard
               /\ Posted = <<StatusBarUpdate("")>>
               /\ ui.search_term = ui.was.search_term
          ELSE IF ui.was.clipboard # None
          THEN /\ ui.clipboard = None
               /\ ~ui.delete_pending
               /\ Posted = <<StatusBarUpdate("")>>
               /\ ui.search_term = ui.was.search_term
          ELSE /\ Posted = <<EscapePressedInList>>
               /\ ui.clipboard = None
               /\ ~ui.delete_pending
    /\ (ui.key = "dispatch" /\ ui.handled.type = "EscapePressedInList") =>
          /\ ui.search_term = ""
          /\ ui.delete_pending = ui.was.delete_pending
          /\ ui.clipboard = ui.was.clipboard

\* C29 witness: Escape pressed with a delete pending and a task on the
\* clipboard.
C29_Witness ==
    /\ ui.key = "escape"
    /\ ui.was.delete_pending
    /\ ui.was.clipboard # None

\* the ids on the screen
OnScreen == {ui.task_ids[k] : k \in DOMAIN ui.task_ids}

C35_PositiveKeys ==
    \A i \in DOMAIN tasks :
        tasks[i].order_value \in Int /\ tasks[i].order_value >= 1

\* C35 witness: an insertion before the first task of its category whose key
\* is so low that key - 1000 is not positive, and the halved key was stored.
C35_Witness ==
    /\ IsCreateAt /\ BeforeInForce /\ last.before \in Group
    /\ \A g \in Group : pre[last.before].order_value <= pre[g].order_value
    /\ pre[last.before].order_value \in 2..1000
    /\ NewKey = pre[last.before].order_value \div 2

\* C36: create_task_at_position with a before_task_id that names a task of
\* another category than the target returns a key no task of the target
\* category holds.
C36_CrossGroupBefore ==
    (IsCreateAt /\ BeforeInForce /\ last.before \in DOMAIN pre
        /\ pre[last.before].category # last.category) =>
        \A i \in DOMAIN tasks \ {last.id} :
            tasks[i].category = last.category => tasks[i].order_value # NewKey

\* C37: in every quiescent state (no message waiting for its handler) of
\* TaskListView, _editing holds exactly when one input row, NewTaskInputRow
\* or EditTaskInputRow, is mounted, in the task list or in #input-container.
C37_EditingMatchesRows ==
    (ui.mounted /\ ui.inbox = <<>>) =>
        (ui.editing <=>
            ui.container + (IF ui.row.kind # "none" THEN 1 ELSE 0) = 1)

\* C32: a task created from an input row has the category of the #tag of the
\* entered text if it has one, else that of the task selected when the row
\* was opened; it is placed right after that task when the two categories
\* are equal, and at the end of its category otherwise or when no task was
\* selected.
C32_UiCreatedTask ==
    (ui.key = "dispatch" /\ ui.handled.type = "TaskCreated") =>
        LET opened == ui.handled.row
            parsed == ParseTaskTitle(Chars(ui.handled.text))
            category == IF parsed.category # NoCategory THEN Text(parsed.category)
                        ELSE opened.category
            group == {i \in DOMAIN tasks \ {last.id} : tasks[i].category = category}
        IN  /\ tasks[last.id].category = category
            /\ IF opened.after # None /\ opened.category = category
               THEN /\ tasks[opened.after].order_value < NewKey
                    /\ \A i \in group :
                         tasks[i].order_value <= tasks[opened.after].order_value
                            \/ tasks[i].order_value > NewKey
               ELSE \A i \in group : tasks[i].order_value < NewKey

\* C31: y, x and p do nothing while the clipboard-ready flag is not set; a
\* paste of a cut task posts one TaskPasted with the source id as
\* delete_source_id and empties the clipboard; a paste of a copied task
\* posts TaskPasted with no delete_source_id and keeps the clipboard; a
\* paste with the clipboard empty posts nothing.
C31_ClipboardProtocol ==
    /\ (ui.key \in {"y", "x", "p"} /\ ~ui.was.clipboard_ready) =>
          /\ Posted = <<>>
          /\ ui.clipboard = ui.was.clipboard
          /\ ui.clipboard_mode = ui.was.clipboard_mode
          /\ ~ui.clipboard_ready
    /\ (ui.key = "p" /\ ui.was.clipboard_ready) =>
          IF ui.was.clipboard = None
          THEN Posted = <<>> /\ ui.clipboard = None
          ELSE /\ Len(Posted) = 1
               /\ Posted[1].type = "TaskPasted"
               /\ IF ui.was.clipboard_mode = "cut"
                  THEN /\ Posted[1].id = ui.was.clipboard
                       /\ ui.clipboard = None
                       /\ ui.clipboard_mode = "none"
                  ELSE /\ Posted[1].id = None
                       /\ ui.clipboard = ui.was.clipboard
                       /\ ui.clipboard_mode = "copy"

\* C31 witness: the paste of a cut task has posted its TaskPasted.
C31_Witness ==
    /\ ui.key = "p"
    /\ ui.was.clipboard_ready
    /\ ui.was.clipboard # None /\ ui.was.clipboard_mode = "cut"
    /\ Len(Posted) = 1

C38_DeleteBoundToTask ==
    \A k \in DOMAIN Posted :
        Posted[k].type = "TaskDeleted" =>
            /\ Posted[k].id = ui.was.selected
            /\ Posted[k].id = ui.armed

\* C34: parse_task_title splits at the last '#': the title is the trimmed
\* text before it, the category the trimmed text after it; without a '#',
\* or with either part empty after trimming, the title is the whole trimmed
\* input and the category None. An input with a non-blank character gives a
\* non-empty title, and so does every text an input row passes on.
C34_TitleParsing ==
    /\ ui.key = "parse_task_title" =>
          LET raw_title == ui.typed
              hashes == {k \in DOMAIN raw_title : raw_title[k] = "#"}
              whole == [title |-> Strip(raw_title), category |-> NoCategory]
          IN  /\ IF hashes = {} THEN ui.parsed = whole
                 ELSE \E at \in hashes :
                        /\ \A k \in hashes : k <= at
                        /\ LET before == Strip(SubSeq(raw_title, 1, at - 1))
                               after == Strip(SubSeq(raw_title, at + 1, Len(raw_title)))
                           IN  IF before = <<>> \/ after = <<>> THEN ui.parsed = whole
                               ELSE ui.parsed = [title |-> before, category |-> after]
              /\ (\E k \in DOMAIN raw_title : raw_title[k] # " ") => ui.parsed.title # <<>>
              /\ ui.parsed.title # <<>> =>
                    /\ ui.parsed.title[1] # " "
                    /\ ui.parsed.title[Len(ui.parsed.title)] # " "
    /\ ui.key = "on_input_submitted" => ui.parsed.title # <<>>

\* C34 witness: a raw title with two '#' parsed into a title that keeps the
\* first '#' and a category.
C34_Witness ==
    /\ ui.key = "parse_task_title"
    /\ Cardinality({k \in DOMAIN ui.typed : ui.typed[k] = "#"}) = 2
    /\ ui.parsed.category # NoCategory
    /\ \E k \in DOMAIN ui.parsed.title : ui.parsed.title[k] = "#"
====
